---------------------------- MODULE Spec2Model ----------------------------
(***************************************************************************)
(* Model of the Gothic tools add-ons: the lancet-window conversion         *)
(* (src/gothic_tools.py) and the cone edge-loop operator                   *)
(* (src/add_edge_loop_cone.py).                                            *)
(*                                                                         *)
(* Coordinates are exact rationals <<n, d>> (d > 0, lowest terms); the     *)
(* rounding of the host's floats is not modelled.                          *)
(***************************************************************************)
EXTENDS Integers, Sequences, FiniteSets, TLC

(***************************************************************************)
(* Rational arithmetic                                                     *)
(***************************************************************************)
Abs(x) == IF x < 0 THEN -x ELSE x

RECURSIVE Gcd(_, _)
Gcd(a, b) == IF b = 0 THEN a ELSE Gcd(b, a % b)

RNorm(n, d) ==
    LET s == IF d < 0 THEN -1 ELSE 1
        g == Gcd(Abs(n), Abs(d))
    IN  IF n = 0 THEN <<0, 1>> ELSE <<(s * n) \div g, (s * d) \div g>>

R(n) == <<n, 1>>
RAdd(a, b) == RNorm(a[1] * b[2] + b[1] * a[2], a[2] * b[2])
RSub(a, b) == RNorm(a[1] * b[2] - b[1] * a[2], a[2] * b[2])
RMul(a, b) == RNorm(a[1] * b[1], a[2] * b[2])
RDiv(a, b) == RNorm(a[1] * b[2], a[2] * b[1])
RNeg(a) == <<-a[1], a[2]>>
RLt(a, b) == a[1] * b[2] < b[1] * a[2]
RLe(a, b) == a[1] * b[2] <= b[1] * a[2]
RMax(a, b) == IF RLt(a, b) THEN b ELSE a
RMin(a, b) == IF RLt(b, a) THEN b ELSE a
RAbs(a) == <<Abs(a[1]), a[2]>>
RZero == R(0)
ROne == R(1)

(* Operator arguments and LET definitions are evaluated on demand; in      *)
(* After(v, e) the value v is computed before e is, so that a chain of mesh  *)
(* updates is computed one update after the other.                         *)
After(v, e) == IF v = v THEN e ELSE e

(* Integer square root (floor): the largest s with s*s <= n. *)
RECURSIVE ISqrtIn(_, _, _)
ISqrtIn(n, lo, hi) ==
    IF lo >= hi THEN lo
    ELSE LET mid == (lo + hi + 1) \div 2
         IN  IF mid * mid <= n THEN ISqrtIn(n, mid, hi) ELSE ISqrtIn(n, lo, mid - 1)
ISqrt(n) == ISqrtIn(n, 0, IF n > 46340 THEN 46340 ELSE n)
IsSquare(n) == ISqrt(n) * ISqrt(n) = n
(* Square root of a rational; exact when both terms are perfect squares. *)
RSqrt(a) == RNorm(ISqrt(a[1]), ISqrt(a[2]))
RSqrtExact(a) == IsSquare(a[1]) /\ IsSquare(a[2])

(***************************************************************************)
(* mathutils.Vector over the rationals                                     *)
(***************************************************************************)
Vec(x, y, z) == <<R(x), R(y), R(z)>>
VZero == Vec(0, 0, 0)
VAdd(a, b) == After(<<a, b>>, <<RAdd(a[1], b[1]), RAdd(a[2], b[2]), RAdd(a[3], b[3])>>)
VSub(a, b) == After(<<a, b>>, <<RSub(a[1], b[1]), RSub(a[2], b[2]), RSub(a[3], b[3])>>)
VScale(r, a) == After(<<r, a>>, <<RMul(r, a[1]), RMul(r, a[2]), RMul(r, a[3])>>)
VNeg(a) == <<RNeg(a[1]), RNeg(a[2]), RNeg(a[3])>>
Dot(a, b) ==
    After(<<a, b>>, RAdd(RAdd(RMul(a[1], b[1]), RMul(a[2], b[2])), RMul(a[3], b[3])))
Cross(a, b) ==
    After(<<a, b>>,
          << RSub(RMul(a[2], b[3]), RMul(a[3], b[2])),
             RSub(RMul(a[3], b[1]), RMul(a[1], b[3])),
             RSub(RMul(a[1], b[2]), RMul(a[2], b[1])) >>)
Len2(a) == Dot(a, a)
Length(a) == LET l2 == Len2(a) IN After(l2, RSqrt(l2))
(* Vector.normalized(): the zero vector stays the zero vector. *)
Normalized(a) ==
    LET l2 == Len2(a)
        inv == RDiv(ROne, RSqrt(l2))
    IN  After(l2, IF l2 = RZero THEN VZero ELSE After(inv, VScale(inv, a)))

(***************************************************************************)
(* Easing                                                                  *)
(***************************************************************************)
RPow2(a) == RMul(a, a)
RPow3(a) == RMul(a, RMul(a, a))

bezier_curve(t, p0, p1, p2, p3) ==
    LET u == RSub(ROne, t)
    IN  RAdd(RAdd(RMul(RPow3(u), p0),
                  RMul(RMul(R(3), RMul(RPow2(u), t)), p1)),
             RAdd(RMul(RMul(R(3), RMul(u, RPow2(t))), p2),
                  RMul(RPow3(t), p3)))

(* A variant without the clamp of t. *)
fast_in_out_bezier_noclamp(t, sharpness_in, sharpness_out) ==
    bezier_curve(t, RZero, RMax(R(-2), RMin(R(2), sharpness_in)),
                 RMax(R(-2), RMin(R(2), sharpness_out)), ROne)

fast_in_out_bezier(t, sharpness_in, sharpness_out) ==
    LET tc == RMax(RZero, RMin(ROne, t))
        si == RMax(R(-2), RMin(R(2), sharpness_in))
        so == RMax(R(-2), RMin(R(2), sharpness_out))
    IN  bezier_curve(tc, RZero, si, so, ROne)


(***************************************************************************)
(* The host mesh (bmesh): vertices with coordinates, edges as vertex       *)
(* pairs, faces as vertex loops with the edges of each loop in loop order. *)
(*   co : vertex -> Vector      ev : edge -> <<v1, v2>>                    *)
(*   fv : face -> vertex loop   fe : face -> edge loop (fe[i] joins fv[i]  *)
(*                                    and the next vertex of the loop)     *)
(***************************************************************************)
SetMax(S) == IF S = {} THEN 0 ELSE CHOOSE x \in S : \A y \in S : y <= x
SetMin(S) == CHOOSE x \in S : \A y \in S : x <= y
RankIn(S, x) == Cardinality({y \in S : y < x}) + 1
SeqToSet(s) == {s[i] : i \in 1..Len(s)}
PosOf(s, x) == CHOOSE i \in 1..Len(s) : s[i] = x
NextIdx(i, k) == (i % k) + 1

RECURSIVE Flatten(_)
Flatten(ss) == IF ss = <<>> THEN <<>> ELSE Head(ss) \o Flatten(Tail(ss))

BMVerts(m) == DOMAIN m.co
BMEdges(m) == DOMAIN m.ev
BMFaces(m) == DOMAIN m.fv
EdgeVerts(m, e) == {m.ev[e][1], m.ev[e][2]}
FaceEdges(m, f) == SeqToSet(m.fe[f])
FaceVerts(m, f) == SeqToSet(m.fv[f])
LinkFaces(m, e) == {f \in BMFaces(m) : e \in FaceEdges(m, f)}
LinkEdges(m, v) == {e \in BMEdges(m) : v \in EdgeVerts(m, e)}
OtherVert(m, e, v) == IF m.ev[e][1] = v THEN m.ev[e][2] ELSE m.ev[e][1]

(* Building a mesh from coordinates and face loops; one edge per vertex pair. *)
LoopPairs(loop) == {{loop[i], loop[NextIdx(i, Len(loop))]} : i \in 1..Len(loop)}
PairKey(p, nv) == SetMin(p) * (nv + 1) + SetMax(p)
MkMesh(coords, loops) ==
    LET nv == Len(coords)
        pairs == UNION {LoopPairs(loops[f]) : f \in 1..Len(loops)}
        idx(p) == Cardinality({q \in pairs : PairKey(q, nv) < PairKey(p, nv)}) + 1
    IN  [ co |-> coords,
          ev |-> [e \in 1..Cardinality(pairs) |->
                    LET p == CHOOSE q \in pairs : idx(q) = e
                    IN  <<SetMin(p), SetMax(p)>>],
          fv |-> loops,
          fe |-> [f \in 1..Len(loops) |->
                    [i \in 1..Len(loops[f]) |->
                        idx({loops[f][i], loops[f][NextIdx(i, Len(loops[f]))]})]] ]

(***************************************************************************)
(* The host's loop cut (bpy.ops.mesh.loopcut_slide with number_cuts = n on *)
(* the edge ring through edge e0).  The ring runs through quads from an    *)
(* edge to the opposite edge of the quad; every ring edge is split into    *)
(* n + 1 segments and every ring quad into n + 1 quads.  The host splits   *)
(* an edge or a face cut by cut from one end, so the segment that keeps    *)
(* the identity of the split edge (kE) and the piece that keeps the        *)
(* identity of the split face (kF) is an end one; which end is the host's  *)
(* choice.                                                                 *)
(***************************************************************************)
IsQuad(m, f) == Len(m.fv[f]) = 4
OppInQuad(m, f, e) == m.fe[f][NextIdx(NextIdx(PosOf(m.fe[f], e), 4), 4)]

RingStep(m, S) ==
    S \cup {OppInQuad(m, x[2], x[1]) :
              x \in {y \in S \X BMFaces(m) : IsQuad(m, y[2]) /\ y[1] \in FaceEdges(m, y[2])}}
RECURSIVE RingOf(_, _)
RingOf(m, S) == LET T == RingStep(m, S) IN IF T = S THEN S ELSE RingOf(m, T)
RingFaces(m, ring) == {f \in BMFaces(m) : IsQuad(m, f) /\ FaceEdges(m, f) \cap ring # {}}
RingRails(m, ring) == (UNION {FaceEdges(m, f) : f \in RingFaces(m, ring)}) \ ring

(* The vertices on one side of the cut: reachable from v along the rails. *)
SideStep(m, rails, S) ==
    S \cup {v \in BMVerts(m) : \E r \in rails : v \in EdgeVerts(m, r) /\ EdgeVerts(m, r) \cap S # {}}
RECURSIVE SideOf(_, _, _)
SideOf(m, rails, S) ==
    LET T == SideStep(m, rails, S) IN IF T = S THEN S ELSE SideOf(m, rails, T)

HostLoopCut(m, e0, n, kE, kF) ==
    LET ring == RingOf(m, {e0})
        rfaces == RingFaces(m, ring)
        rails == RingRails(m, ring)
        side == SideOf(m, rails, {m.ev[e0][1]})
        maxV == SetMax(BMVerts(m))
        maxE == SetMax(BMEdges(m))
        maxF == SetMax(BMFaces(m))
        nr == Cardinality(ring)
        low(e) == IF m.ev[e][1] \in side THEN m.ev[e][1] ELSE m.ev[e][2]
        high(e) == OtherVert(m, e, low(e))
        newV(e, j) == maxV + (RankIn(ring, e) - 1) * n + j
        chain(e, j) == IF j = 0 THEN low(e) ELSE IF j = n + 1 THEN high(e) ELSE newV(e, j)
        segId(e, j) ==
            IF j = kE THEN e
            ELSE maxE + (RankIn(ring, e) - 1) * n + (IF j < kE THEN j + 1 ELSE j)
        crossId(f, j) == maxE + nr * n + (RankIn(rfaces, f) - 1) * n + j
        pieceId(f, j) ==
            IF j = kF THEN f
            ELSE maxF + (RankIn(rfaces, f) - 1) * n + (IF j < kF THEN j + 1 ELSE j)
        (* ring face f rotated so that a ring edge comes first *)
        r0(f) == IF m.fe[f][1] \in ring THEN 1 ELSE 2
        at(f, k) == ((r0(f) + k - 1) % 4) + 1
        e1(f) == m.fe[f][at(f, 0)]
        rail1(f) == m.fe[f][at(f, 1)]
        e2(f) == m.fe[f][at(f, 2)]
        rail2(f) == m.fe[f][at(f, 3)]
        fwd(f) == m.fv[f][at(f, 0)] \in side
        (* the edge joining level j of the two ring edges of f *)
        rung(f, j) ==
            IF j = 0 THEN (IF fwd(f) THEN rail2(f) ELSE rail1(f))
            ELSE IF j = n + 1 THEN (IF fwd(f) THEN rail1(f) ELSE rail2(f))
            ELSE crossId(f, j)
        pieceV(f, j) ==
            IF fwd(f)
            THEN <<chain(e1(f), j), chain(e1(f), j + 1), chain(e2(f), j + 1), chain(e2(f), j)>>
            ELSE <<chain(e1(f), j + 1), chain(e1(f), j), chain(e2(f), j), chain(e2(f), j + 1)>>
        pieceE(f, j) ==
            IF fwd(f)
            THEN <<segId(e1(f), j), rung(f, j + 1), segId(e2(f), j), rung(f, j)>>
            ELSE <<segId(e1(f), j), rung(f, j), segId(e2(f), j), rung(f, j + 1)>>
        (* a face outside the ring keeps its identity; its loop gains the new vertices *)
        expV(f, i) ==
            LET e == m.fe[f][i] IN
            IF e \notin ring THEN <<m.fv[f][i]>>
            ELSE IF m.fv[f][i] = low(e) THEN [j \in 1..(n + 1) |-> chain(e, j - 1)]
            ELSE [j \in 1..(n + 1) |-> chain(e, n + 2 - j)]
        expE(f, i) ==
            LET e == m.fe[f][i] IN
            IF e \notin ring THEN <<e>>
            ELSE IF m.fv[f][i] = low(e) THEN [j \in 1..(n + 1) |-> segId(e, j - 1)]
            ELSE [j \in 1..(n + 1) |-> segId(e, n + 1 - j)]
        newVerts == {newV(e, j) : e \in ring, j \in 1..n}
        segs == ring \X (0..n)
        crosses == rfaces \X (1..n)
        pieces == rfaces \X (0..n)
        allE == BMEdges(m) \cup {segId(x[1], x[2]) : x \in segs}
                           \cup {crossId(x[1], x[2]) : x \in crosses}
        allF == BMFaces(m) \cup {pieceId(x[1], x[2]) : x \in pieces}
    IN  [ co |-> [v \in BMVerts(m) \cup newVerts |->
                    IF v \in BMVerts(m) THEN m.co[v]
                    ELSE LET x == CHOOSE y \in ring \X (1..n) : newV(y[1], y[2]) = v
                             a == m.co[low(x[1])]
                             b == m.co[high(x[1])]
                         IN  VAdd(a, VScale(RNorm(x[2], n + 1), VSub(b, a)))],
          ev |-> [e \in allE |->
                    IF \E x \in segs : segId(x[1], x[2]) = e
                    THEN LET x == CHOOSE y \in segs : segId(y[1], y[2]) = e
                         IN  IF m.ev[x[1]][1] = low(x[1])
                             THEN <<chain(x[1], x[2]), chain(x[1], x[2] + 1)>>
                             ELSE <<chain(x[1], x[2] + 1), chain(x[1], x[2])>>
                    ELSE IF \E x \in crosses : crossId(x[1], x[2]) = e
                    THEN LET x == CHOOSE y \in crosses : crossId(y[1], y[2]) = e
                         IN  <<chain(e1(x[1]), x[2]), chain(e2(x[1]), x[2])>>
                    ELSE m.ev[e]],
          fv |-> [f \in allF |->
                    IF \E x \in pieces : pieceId(x[1], x[2]) = f
                    THEN LET x == CHOOSE y \in pieces : pieceId(y[1], y[2]) = f
                         IN  pieceV(x[1], x[2])
                    ELSE Flatten([i \in 1..Len(m.fv[f]) |-> expV(f, i)])],
          fe |-> [f \in allF |->
                    IF \E x \in pieces : pieceId(x[1], x[2]) = f
                    THEN LET x == CHOOSE y \in pieces : pieceId(y[1], y[2]) = f
                         IN  pieceE(x[1], x[2])
                    ELSE Flatten([i \in 1..Len(m.fe[f]) |-> expE(f, i)])] ]

(***************************************************************************)
(* Input meshes.  A window recess is a prism over an outline in the XZ     *)
(* plane: vertex i is outline point i at y = 0, vertex k + i the same      *)
(* point (shifted in x by skew[i]) at y = depth; face i (i <= k) is the    *)
(* side quad between rungs i and i+1, faces k+1 and k+2 are the two caps.  *)
(***************************************************************************)
Reverse(s) == [i \in 1..Len(s) |-> s[Len(s) + 1 - i]]

Prism(outline, depth, skew) ==
    LET k == Len(outline)
    IN  MkMesh([v \in 1..(2 * k) |->
                   IF v <= k THEN Vec(outline[v][1], 0, outline[v][2])
                   ELSE Vec(outline[v - k][1] + skew[v - k], depth, outline[v - k][2])],
               [f \in 1..(k + 2) |->
                   IF f <= k THEN <<f, NextIdx(f, k), k + NextIdx(f, k), k + f>>
                   ELSE IF f = k + 1 THEN Reverse([i \in 1..k |-> i])
                   ELSE [i \in 1..k |-> k + i]])

NoSkew(k) == [i \in 1..k |-> 0]

(* A pointed arch: one rung at the top. *)
PointedOutline == << <<-4, 0>>, <<-4, 8>>, <<0, 12>>, <<4, 8>>, <<4, 0>> >>
(* A flat-topped arch: two rungs at the top. *)
FlatOutline == << <<-4, 0>>, <<-4, 8>>, <<-2, 12>>, <<2, 12>>, <<4, 8>>, <<4, 0>> >>
(* An arch whose left shoulder rises above the rung next to the top rung. *)
ShoulderOutline == << <<-4, 0>>, <<-6, 10>>, <<-2, 8>>, <<0, 12>>, <<4, 8>>, <<4, 0>> >>

PointedMesh == Prism(PointedOutline, 8, NoSkew(5))
FlatMesh == Prism(FlatOutline, 8, NoSkew(6))
ShoulderMesh == Prism(ShoulderOutline, 8, NoSkew(6))
(* The pointed arch with its bottom rung sheared in x. *)
SkewMesh == Prism(PointedOutline, 8, <<6, 0, 0, 0, 0>>)

(* The pointed arch two rows of quads deep (y = 0, depth, 2 * depth): the   *)
(* faces 1..k are the front row and k+1..2k the row behind it, so that an  *)
(* edge ring through a front quad continues into the quad behind it.       *)
DeepPrism(outline, depth) ==
    LET k == Len(outline)
        pt(v) == outline[((v - 1) % k) + 1]
    IN  MkMesh([v \in 1..(3 * k) |-> Vec(pt(v)[1], ((v - 1) \div k) * depth, pt(v)[2])],
               [f \in 1..(2 * k + 2) |->
                   IF f <= k THEN <<f, NextIdx(f, k), k + NextIdx(f, k), k + f>>
                   ELSE IF f <= 2 * k
                   THEN <<f, k + NextIdx(f - k, k), 2 * k + NextIdx(f - k, k), k + f>>
                   ELSE IF f = 2 * k + 1 THEN Reverse([i \in 1..k |-> i])
                   ELSE [i \in 1..k |-> 2 * k + i]])
DeepMesh == DeepPrism(PointedOutline, 8)

(* A roof folded along a ridge parallel to Y; the ridge (vertices 1..6) is  *)
(* cut in five segments, which share the ridge vertices; each slope is one *)
(* face down to the eave at x = -6 (vertices 7, 8) or x = 6 (vertices 9,   *)
(* 10).                                                                     *)
RidgeMesh ==
    MkMesh(<< Vec(0, 0, 8), Vec(0, 1, 8), Vec(0, 2, 8), Vec(0, 3, 8), Vec(0, 4, 8),
              Vec(0, 5, 8), Vec(-6, 0, 0), Vec(-6, 5, 0), Vec(6, 0, 0), Vec(6, 5, 0) >>,
           << <<1, 2, 3, 4, 5, 6, 8, 7>>, <<6, 5, 4, 3, 2, 1, 9, 10>> >>)

(* Two tetrahedra glued along the edge 1-2 (the only edge with four faces). *)
TwoTetraMesh ==
    MkMesh(<< Vec(0, 0, 0), Vec(0, 4, 0), Vec(4, 0, 4), Vec(4, 4, 4),
              Vec(-4, 0, 2), Vec(-4, 4, 2) >>,
           << <<1, 2, 3>>, <<1, 2, 4>>, <<1, 3, 4>>, <<2, 3, 4>>,
              <<1, 2, 5>>, <<1, 2, 6>>, <<1, 5, 6>>, <<2, 5, 6>> >>)

(***************************************************************************)
(* State                                                                   *)
(***************************************************************************)
VARIABLES
    op,      \* the operator being run: "lancet", "cone" or "ease"
    pc,      \* position in the operator
    env,     \* the active object's type and the operator's properties
    mesh,    \* the edit mesh (bm)
    mesh0,   \* the edit mesh when the operator started
    sel,     \* selection flags: [faces, verts]
    out,     \* what the run reported: [ret, msg, exc]
    L,       \* locals of MESH_OT_ConvertInsetToLancetWindow.execute
    lcb,     \* frame of the running loopcut_between call
    host,    \* the host's command log and its pending loop cut
    sp,      \* the last spacer call: its walls and the mesh before, between and after
    ease,    \* the last call of fast_in_out_bezier: [t, s_in, s_out, res]
    walk,    \* the last call of get_window_faces_between on its own
    K        \* locals of MESH_OT_AddEdgeLoopToCone.execute

vars == <<op, pc, env, mesh, mesh0, sel, out, L, lcb, host, sp, ease, K, walk>>

MaxSegments == 2
FracDen == 2

NoOut == [ret |-> "", msg |-> "", exc |-> ""]
Cancelled(msg) == [ret |-> "CANCELLED", msg |-> msg, exc |-> ""]
Finished(msg) == [ret |-> "FINISHED", msg |-> msg, exc |-> ""]
Raised(exc) == [ret |-> "", msg |-> "", exc |-> exc]

NoLocals ==
    [ selected_faces |-> <<>>, boundary_edges |-> {}, selected_edges |-> {},
      top_edges |-> {}, original_wall_edges |-> {}, top_edge |-> 0,
      forward |-> VZero, perp |-> VZero, min_z |-> RZero, max_z |-> RZero,
      top_center |-> VZero, left_edges |-> {}, right_edges |-> {} ]

NoFrame ==
    [ first |-> 0, second |-> 0, n |-> 0, side |-> "", ret_pc |-> "",
      face |-> 0, ref_edge |-> 0, existing_faces |-> {}, existing_edges |-> {},
      faces0 |-> <<>>, all_edges0 |-> {}, boundary0 |-> {}, side0 |-> {},
      new_faces |-> {}, new_edges |-> {},
      new_window_faces |-> <<>>, new_window_edges |-> {}, status |-> "" ]

NoHost == [pending |-> FALSE, log |-> <<>>]
NoSpacer == [kind |-> "", side |-> "", walls |-> <<>>, pre |-> <<>>, mid |-> <<>>,
             post |-> <<>>, exact |-> TRUE]
NoEase == [t |-> RZero, s_in |-> RZero, s_out |-> RZero, res |-> RZero]
NoWalk == [first |-> 0, second |-> 0, new_faces |-> {}, old_faces |-> {},
           faces |-> <<>>, exc |-> ""]
NoCone == [apex |-> 0, fan_faces |-> {}, border_verts |-> <<>>, middle_verts |-> <<>>,
           middle_loop |-> <<>>, spike_edges_to_delete |-> <<>>]

(* The runs of the lancet conversion that are explored. *)
AllSegments == 0..MaxSegments
AllFractions == {RNorm(i, FracDen) : i \in 0..FracDen}
LancetInputs ==
    { [mesh |-> PointedMesh, objtype |-> "MESH", faces |-> 1..5,
       segs |-> AllSegments, fracs |-> AllFractions, sharps |-> {<<R(0), R(0)>>}],
      [mesh |-> PointedMesh, objtype |-> "MESH", faces |-> 1..5,
       segs |-> {1}, fracs |-> {RNorm(1, 2)}, sharps |-> {<<R(3), R(-1)>>}],
      [mesh |-> PointedMesh, objtype |-> "MESH", faces |-> 1..4,
       segs |-> {0}, fracs |-> AllFractions, sharps |-> {<<R(0), R(0)>>}],
      [mesh |-> FlatMesh, objtype |-> "MESH", faces |-> 1..6,
       segs |-> {0, 1}, fracs |-> {RNorm(1, 2)}, sharps |-> {<<R(1), R(2)>>}],
      [mesh |-> DeepMesh, objtype |-> "MESH", faces |-> 1..5,
       segs |-> {1}, fracs |-> {RNorm(1, 2)}, sharps |-> {<<R(0), R(0)>>}],
      [mesh |-> ShoulderMesh, objtype |-> "MESH", faces |-> 1..6,
       segs |-> {0, 1}, fracs |-> {RNorm(1, 2)}, sharps |-> {<<R(0), R(0)>>}],
      [mesh |-> SkewMesh, objtype |-> "MESH", faces |-> 1..5,
       segs |-> {0}, fracs |-> AllFractions, sharps |-> {<<R(0), R(0)>>}],
      [mesh |-> RidgeMesh, objtype |-> "MESH", faces |-> 1..2,
       segs |-> {0}, fracs |-> AllFractions, sharps |-> {<<R(-2), R(3)>>}],
      [mesh |-> TwoTetraMesh, objtype |-> "MESH", faces |-> 1..8,
       segs |-> {0}, fracs |-> {RNorm(1, 2)}, sharps |-> {<<R(0), R(0)>>}],
      [mesh |-> PointedMesh, objtype |-> "MESH", faces |-> 1..7,
       segs |-> {0}, fracs |-> {RNorm(1, 2)}, sharps |-> {<<R(0), R(0)>>}],
      [mesh |-> PointedMesh, objtype |-> "MESH", faces |-> {3},
       segs |-> {0}, fracs |-> {RNorm(1, 2)}, sharps |-> {<<R(0), R(0)>>}],
      [mesh |-> PointedMesh, objtype |-> "MESH", faces |-> {},
       segs |-> {0}, fracs |-> {RNorm(1, 2)}, sharps |-> {<<R(0), R(0)>>}],
      [mesh |-> PointedMesh, objtype |-> "CURVE", faces |-> {},
       segs |-> {0}, fracs |-> {RNorm(1, 2)}, sharps |-> {<<R(0), R(0)>>}],
      [mesh |-> PointedMesh, objtype |-> "NONE", faces |-> {},
       segs |-> {0}, fracs |-> {RNorm(1, 2)}, sharps |-> {<<R(0), R(0)>>}] }

InitLancet ==
    \E i \in LancetInputs :
        /\ op = "lancet"
        /\ pc = "start"
        /\ mesh = i.mesh
        /\ mesh0 = i.mesh
        /\ sel = [faces |-> i.faces, verts |-> {}]
        /\ \E cs \in i.segs, sf \in i.fracs, sh \in i.sharps :
               env = [ objtype |-> i.objtype, curve_segments |-> cs, start_fraction |-> sf,
                       sharpness_in |-> sh[1], sharpness_out |-> sh[2], fraction |-> RNorm(1, 2) ]
        /\ out = NoOut
        /\ L = NoLocals
        /\ lcb = NoFrame
        /\ host = NoHost
        /\ sp = NoSpacer
        /\ ease = NoEase
    /\ K = NoCone
    /\ walk = NoWalk

(***************************************************************************)
(* MESH_OT_ConvertInsetToLancetWindow.execute, step 1: classification      *)
(***************************************************************************)
EdgeCo1(m, e) == m.co[m.ev[e][1]]
EdgeCo2(m, e) == m.co[m.ev[e][2]]
EdgeVector(m, e) == VSub(EdgeCo2(m, e), EdgeCo1(m, e))
EdgeCenter(m, e) == VScale(RNorm(1, 2), VAdd(EdgeCo1(m, e), EdgeCo2(m, e)))
edge_avg_z(m, e) == RDiv(RAdd(EdgeCo1(m, e)[3], EdgeCo2(m, e)[3]), R(2))

tol == RNorm(1, 1000)

RMaxOf(S) == CHOOSE x \in S : \A y \in S : RLe(y, x)
RMinOf(S) == CHOOSE x \in S : \A y \in S : RLe(x, y)

linked_selected_faces(m, selected_faces, e) ==
    Cardinality(LinkFaces(m, e) \cap SeqToSet(selected_faces))

(* Ascending sequence of a set of ids (the order of bm.faces). *)
SortedSeq(S) == [i \in 1..Cardinality(S) |-> CHOOSE x \in S : RankIn(S, x) = i]

LancetCheckObject ==
    /\ op = "lancet" /\ pc = "start"
    /\ IF env.objtype # "MESH"
       THEN /\ out' = Cancelled("Active object must be a mesh")
            /\ pc' = "done"
       ELSE /\ out' = out
            /\ pc' = "classify"
    /\ UNCHANGED <<op, walk, env, mesh, mesh0, sel, L, lcb, host, sp, ease, K>>

SelectedEdgesOf(m, selected_faces) ==
    {e \in BMEdges(m) : linked_selected_faces(m, selected_faces, e) > 0}
BoundaryEdgesNotTwo(m, selected_faces) ==
    {e \in BMEdges(m) : linked_selected_faces(m, selected_faces, e) # 2}
BoundaryEdgesOf(m, selected_faces) ==
    {e \in SelectedEdgesOf(m, selected_faces) :
        linked_selected_faces(m, selected_faces, e) # 2}
TopEdgesOf(m, selected_edges, boundary_edges, max_z) ==
    {e \in selected_edges :
        RLt(RAbs(RSub(edge_avg_z(m, e), max_z)), tol) /\ e \notin boundary_edges}

LancetClassify ==
    /\ op = "lancet" /\ pc = "classify"
    /\ LET selected_faces == SortedSeq(sel.faces)
           selected_edges == SelectedEdgesOf(mesh, selected_faces)
           boundary_edges == BoundaryEdgesOf(mesh, selected_faces)
           zs == {edge_avg_z(mesh, e) : e \in selected_edges}
           max_z == RMaxOf(zs)
           min_z == RMinOf(zs)
           top_edges == TopEdgesOf(mesh, selected_edges, boundary_edges, max_z)
       IN  IF selected_faces = <<>>
           THEN /\ out' = Cancelled("No faces selected")
                /\ pc' = "done"
                /\ L' = L
           ELSE IF boundary_edges = {}
           THEN /\ out' = Cancelled("No boundary edges found")
                /\ pc' = "done"
                /\ L' = [L EXCEPT !.selected_faces = selected_faces,
                                  !.selected_edges = selected_edges]
           ELSE IF top_edges = {}
           THEN \* list(top_edges)[0] on an empty list
                /\ out' = Raised("IndexError")
                /\ pc' = "done"
                /\ L' = [L EXCEPT !.selected_faces = selected_faces,
                                  !.selected_edges = selected_edges,
                                  !.boundary_edges = boundary_edges,
                                  !.max_z = max_z, !.min_z = min_z]
           ELSE /\ out' = out
                /\ pc' = "axis"
                /\ L' = [L EXCEPT !.selected_faces = selected_faces,
                                  !.selected_edges = selected_edges,
                                  !.boundary_edges = boundary_edges,
                                  !.max_z = max_z, !.min_z = min_z,
                                  !.top_edges = top_edges,
                                  !.original_wall_edges =
                                      (selected_edges \ top_edges) \ boundary_edges,
                                  !.top_edge = SetMin(top_edges)]
    /\ UNCHANGED <<op, walk, env, mesh, mesh0, sel, lcb, host, sp, ease, K>>

(* find_perpendicular_vector: the normalized cross product of a pair of     *)
(* edges of largest cross-product magnitude; the pair found first depends   *)
(* on the iteration order of the set, so every such pair is possible.       *)
find_perpendicular_vector(m, edges) ==
    LET prs == {p \in edges \X edges : p[1] # p[2]}
        cr(p) == Cross(EdgeVector(m, p[1]), EdgeVector(m, p[2]))
        mags == {Len2(cr(p)) : p \in prs}
    IN  IF prs = {} \/ RMaxOf(mags \cup {RZero}) = RZero THEN {}
        ELSE {Normalized(cr(p)) : p \in {q \in prs : Len2(cr(q)) = RMaxOf(mags)}}

LancetAxis ==
    /\ op = "lancet" /\ pc = "axis"
    /\ LET fs == find_perpendicular_vector(mesh, L.boundary_edges)
       IN  IF fs = {}
           THEN \* forward is None: forward.y
                /\ out' = Raised("AttributeError")
                /\ pc' = "done"
                /\ L' = L
           ELSE \E forward \in fs :
                /\ out' = out
                /\ pc' = "topmerge"
                /\ L' = [L EXCEPT !.forward = forward,
                                  !.perp = Normalized(<<RNeg(forward[2]), forward[1], RZero>>)]
    /\ UNCHANGED <<op, walk, env, mesh, mesh0, sel, lcb, host, sp, ease, K>>

(***************************************************************************)
(* get_window_faces_between.  None is 0; a raised IndexError is -1.        *)
(***************************************************************************)
None == 0
face_touches(m, face, edge) == edge \in FaceEdges(m, face)

FirstIn(s, P(_)) ==
    IF \E i \in 1..Len(s) : P(s[i])
    THEN s[CHOOSE i \in 1..Len(s) : P(s[i]) /\ \A j \in 1..(i - 1) : ~P(s[j])]
    ELSE None

edge_between(m, face, other) ==
    LET touches(e) == face_touches(m, other, e) IN FirstIn(m.fe[face], touches)

get_opposite_edge(m, face, boundary_edge) ==
    LET opposite(e) == e # boundary_edge
                       /\ EdgeVerts(m, e) \cap EdgeVerts(m, boundary_edge) = {}
    IN  FirstIn(m.fe[face], opposite)

(* [f for f in e.link_faces if f != face][0] *)
get_opposite_face(m, face, boundary_edge) ==
    LET e == get_opposite_edge(m, face, boundary_edge)
        others == LinkFaces(m, e) \ {face}
    IN  IF e = None THEN None
        ELSE IF others = {} THEN -1
        ELSE SetMin(others)

get_next_face(m, face, prev_face) ==
    LET e == edge_between(m, face, prev_face)
    IN  IF e # None THEN get_opposite_face(m, face, e) ELSE None

WalkResult(faces, exc) == [faces |-> faces, exc |-> exc]

(* A variant of the while loop without the visited-face test of lines      *)
(* 129-130; it is cut off once it holds more faces than the mesh has.       *)
RECURSIVE WalkLoopRevisit(_, _, _, _, _)
WalkLoopRevisit(m, faces_between, next_face, ending_boundary, old_faces) ==
    IF next_face = -1 THEN WalkResult(faces_between, "IndexError")
    ELSE IF next_face = None THEN WalkResult(faces_between, "")
    ELSE LET fb == Append(faces_between, next_face)
             nx == get_next_face(m, next_face, faces_between[Len(faces_between)])
         IN  IF nx = -1 THEN WalkResult(fb, "IndexError")
             ELSE IF nx = None THEN WalkResult(fb, "AttributeError")
             ELSE IF face_touches(m, nx, ending_boundary) THEN WalkResult(fb, "")
             ELSE IF <<"face", nx>> \in old_faces THEN WalkResult(fb, "")
             ELSE IF Len(fb) > Cardinality(BMFaces(m)) THEN WalkResult(fb, "")
             ELSE WalkLoopRevisit(m, fb, nx, ending_boundary, old_faces)

(* The while loop, entered with the faces collected so far and next_face. *)
RECURSIVE WalkLoop(_, _, _, _, _)
WalkLoop(m, faces_between, next_face, ending_boundary, old_faces) ==
    IF next_face = -1 THEN WalkResult(faces_between, "IndexError")
    ELSE IF next_face = None THEN WalkResult(faces_between, "")
    ELSE LET fb == Append(faces_between, next_face)
             nx == get_next_face(m, next_face, faces_between[Len(faces_between)])
         IN  IF nx = -1 THEN WalkResult(fb, "IndexError")
             ELSE IF nx = None THEN WalkResult(fb, "AttributeError")  \* None.edges
             ELSE IF face_touches(m, nx, ending_boundary) THEN WalkResult(fb, "")
             ELSE IF nx \in SeqToSet(fb) THEN WalkResult(fb, "")
             ELSE IF <<"face", nx>> \in old_faces THEN WalkResult(fb, "")
             ELSE WalkLoop(m, fb, nx, ending_boundary, old_faces)

(* The possible results: start_faces[0] is any new face touching the        *)
(* starting boundary (new_faces is a set).                                  *)
get_window_faces_between(m, first, second, new_faces, old_faces) ==
    LET s1 == {f \in new_faces : face_touches(m, f, first)}
        s2 == {f \in new_faces : face_touches(m, f, second)}
    IN  IF s1 # {}
        THEN {WalkLoop(m, <<f>>, get_opposite_face(m, f, first), second, old_faces) : f \in s1}
        ELSE IF s2 # {}
        THEN {WalkLoop(m, <<f>>, get_opposite_face(m, f, second), first, old_faces) : f \in s2}
        ELSE {WalkResult(<<>>, "")}

(***************************************************************************)
(* loopcut_between and loopcut.  The caller fills the frame (first,        *)
(* second, n, the side list that receives the new edges, where to return)  *)
(* and moves to "lcb_enter".                                               *)
(***************************************************************************)
Call(first, second, n, side, ret_pc) ==
    [NoFrame EXCEPT !.first = first, !.second = second, !.n = n, !.side = side,
                    !.ret_pc = ret_pc, !.status = "called"]

SideList(loc, side) ==
    IF side = "top" THEN loc.top_edges
    ELSE IF side = "left" THEN loc.left_edges
    ELSE loc.right_edges

WithSideList(loc, side, edges) ==
    IF side = "top" THEN [loc EXCEPT !.top_edges = edges]
    ELSE IF side = "left" THEN [loc EXCEPT !.left_edges = edges]
    ELSE [loc EXCEPT !.right_edges = edges]

LastIn(s, P(_)) ==
    IF \E i \in 1..Len(s) : P(s[i])
    THEN s[CHOOSE i \in 1..Len(s) : P(s[i]) /\ \A j \in (i + 1)..Len(s) : ~P(s[j])]
    ELSE None

(* for f in faces: if first in f.edges and second in f.edges: face = f *)
CommonFace(m, faces, first, second) ==
    LET both(f) == first \in FaceEdges(m, f) /\ second \in FaceEdges(m, f)
    IN  LastIn(faces, both)

(* other_edges[0] *)
RefEdge(m, face, first, second) ==
    LET other(e) == e \notin {first, second} IN FirstIn(m.fe[face], other)

Logged(h, ev) == [h EXCEPT !.log = Append(@, ev)]

(* Lines 138-148: find the common face, pick the reference edge, snapshot. *)
LcbEnter ==
    /\ pc = "lcb_enter"
    /\ LET face == CommonFace(mesh, L.selected_faces, lcb.first, lcb.second)
       IN  IF face = None
           THEN \* face.edges with face = None
                /\ out' = Raised("AttributeError")
                /\ pc' = "done"
                /\ lcb' = [lcb EXCEPT !.status = "raised"]
                /\ host' = host
           ELSE /\ out' = out
                /\ pc' = "lcb_cut"
                /\ lcb' = [lcb EXCEPT !.face = face,
                                      !.ref_edge = RefEdge(mesh, face, lcb.first, lcb.second),
                                      !.existing_faces = BMFaces(mesh),
                                      !.existing_edges = BMEdges(mesh),
                                      !.faces0 = L.selected_faces,
                                      !.all_edges0 = L.selected_edges,
                                      !.boundary0 = L.boundary_edges,
                                      !.side0 = SideList(L, lcb.side),
                                      !.status = "running"]
                /\ host' = Logged(host, "snapshot")
    /\ UNCHANGED <<op, walk, env, mesh, mesh0, sel, L, sp, ease, K>>

(* A variant of loopcut that returns without the flush at line 185. *)
loopcut_no_flush(p) ==
    CASE p = "lcb_cut" -> "lcb_sleep"
      [] p = "lcb_sleep" -> "lcb_delta"
      [] OTHER -> "lcb_delta"

(* loopcut, lines 179-185: the statement that follows each statement; after *)
(* the last one control is back in loopcut_between at line 150.             *)
loopcut_step(p) ==
    CASE p = "lcb_cut" -> "lcb_sleep"
      [] p = "lcb_sleep" -> "lcb_flush"
      [] OTHER -> "lcb_delta"

(* Line 179: bpy.ops.mesh.loopcut_slide *)
HostLoopCutSlide ==
    /\ pc = "lcb_cut"
    /\ \E kE \in {0, lcb.n}, kF \in {0, lcb.n} :
           mesh' = HostLoopCut(mesh, lcb.ref_edge, lcb.n, kE, kF)
    /\ host' = [Logged(host, "loopcut_slide") EXCEPT !.pending = TRUE]
    /\ pc' = loopcut_step(pc)
    /\ UNCHANGED <<op, walk, env, mesh0, sel, out, L, lcb, sp, ease, K>>

(* Line 182: time.sleep(0.005) *)
HostSleep ==
    /\ pc = "lcb_sleep"
    /\ host' = Logged(host, "sleep")
    /\ pc' = loopcut_step(pc)
    /\ UNCHANGED <<op, walk, env, mesh, mesh0, sel, out, L, lcb, sp, ease, K>>

(* Line 185: bpy.context.view_layer.update() *)
HostViewLayerUpdate ==
    /\ pc = "lcb_flush"
    /\ host' = [Logged(host, "view_layer_update") EXCEPT !.pending = FALSE]
    /\ pc' = loopcut_step(pc)
    /\ UNCHANGED <<op, walk, env, mesh, mesh0, sel, out, L, lcb, sp, ease, K>>

(* A variant that tracks every new edge of the mesh. *)
TrackedAll(m, new_edges, faces) == new_edges

(* A variant that marks no new edge as a boundary edge. *)
BoundaryNewNone(m, new_edges, faces) == {}

(* Lines 161-169: the new edges that are tracked, marked boundary, returned. *)
TrackedNewEdges(m, new_edges, faces) ==
    {e \in new_edges : LinkFaces(m, e) \cap SeqToSet(faces) # {}}
BoundaryNewAll(m, new_edges, faces) == TrackedNewEdges(m, new_edges, faces)
BoundaryNewEdges(m, new_edges, faces) ==
    {e \in TrackedNewEdges(m, new_edges, faces) : LinkFaces(m, e) \ SeqToSet(faces) # {}}

RegionWalk(m, first, second, new_faces, old_faces) ==
    get_window_faces_between(m, first, second, new_faces, old_faces)

(* Lines 152-171: the delta, the region walk, the bookkeeping. *)
LcbCollect ==
    /\ pc = "lcb_delta"
    /\ LET new_faces == BMFaces(mesh) \ lcb.existing_faces
           new_edges == BMEdges(mesh) \ lcb.existing_edges
       IN  \E w \in RegionWalk(mesh, lcb.first, lcb.second, new_faces,
                               {<<"edge", e>> : e \in new_edges}) :
             IF w.exc # ""
             THEN /\ out' = Raised(w.exc)
                  /\ pc' = "done"
                  /\ L' = L
                  /\ lcb' = [lcb EXCEPT !.new_faces = new_faces, !.new_edges = new_edges,
                                        !.status = "raised"]
             ELSE LET faces == L.selected_faces \o w.faces
                      tracked == TrackedNewEdges(mesh, new_edges, faces)
                      bnd == BoundaryNewEdges(mesh, new_edges, faces)
                      loc == [L EXCEPT !.selected_faces = faces,
                                       !.selected_edges = @ \cup tracked,
                                       !.boundary_edges = @ \cup bnd]
                  IN  /\ out' = out
                      /\ pc' = lcb.ret_pc
                      /\ L' = WithSideList(loc, lcb.side,
                                           SideList(L, lcb.side) \cup (tracked \ bnd))
                      /\ lcb' = [lcb EXCEPT !.new_faces = new_faces,
                                            !.new_edges = new_edges,
                                            !.new_window_faces = w.faces,
                                            !.new_window_edges = tracked \ bnd,
                                            !.status = "returned"]
    /\ host' = Logged(host, "delta")
    /\ UNCHANGED <<op, walk, env, mesh, mesh0, sel, sp, ease, K>>

(***************************************************************************)
(* sorted(): every ascending arrangement; elements with equal keys keep    *)
(* their list order, which comes from the iteration order of a set, so     *)
(* they may come out in any order.  Keys are pairs of rationals.           *)
(***************************************************************************)
KeyLess(a, b) == RLt(a[1], b[1]) \/ (a[1] = b[1] /\ RLt(a[2], b[2]))

RECURSIVE SortedSeqs(_, _)
SortedSeqs(S, key) ==
    IF S = {} THEN {<<>>}
    ELSE UNION {{<<x>> \o s : s \in SortedSeqs(S \ {x}, key)} :
                   x \in {y \in S : \A z \in S : ~KeyLess(key[z], key[y])}}

edge_sort_key(m, perp, edge) == Dot(EdgeCenter(m, edge), perp)
LateralKeys(m, perp, S) == [e \in S |-> <<edge_sort_key(m, perp, e), RZero>>]

(* distance_to_center is -distance; -distance^2 orders the same way. *)
distance_to_center(m, top_center, edge) ==
    RNeg(Len2(VSub(top_center, EdgeCenter(m, edge))))
VerticalKeys(m, top_center, S) ==
    [e \in S |-> <<edge_avg_z(m, e), distance_to_center(m, top_center, e)>>]
sort_vertically(m, top_center, walls) ==
    SortedSeqs(walls, VerticalKeys(m, top_center, walls))

(* Lines 465-475: with several top edges take the middle one by lateral    *)
(* projection; with an even number cut between the two middle ones.        *)
LancetTopMerge ==
    /\ op = "lancet" /\ pc = "topmerge"
    /\ IF Cardinality(L.top_edges) > 1
       THEN \E srt \in SortedSeqs(L.top_edges, LateralKeys(mesh, L.perp, L.top_edges)) :
               LET middle_index == Len(srt) \div 2
               IN  /\ L' = [L EXCEPT !.top_edge = srt[middle_index + 1]]
                   /\ IF Len(srt) % 2 = 0
                      THEN /\ lcb' = Call(srt[middle_index + 1], srt[middle_index], 1,
                                          "top", "topmerge_after")
                           /\ pc' = "lcb_enter"
                      ELSE /\ lcb' = lcb
                           /\ pc' = "partition"
       ELSE /\ L' = L
            /\ lcb' = lcb
            /\ pc' = "partition"
    /\ UNCHANGED <<op, walk, env, mesh, mesh0, sel, out, host, sp, ease, K>>

(* Lines 477-480 *)
LancetTopMergeAfter ==
    /\ op = "lancet" /\ pc = "topmerge_after"
    /\ \E srt \in SortedSeqs(L.top_edges, LateralKeys(mesh, L.perp, L.top_edges)) :
           L' = [L EXCEPT !.top_edge = srt[(Len(srt) \div 2) + 1]]
    /\ pc' = "partition"
    /\ UNCHANGED <<op, walk, env, mesh, mesh0, sel, out, lcb, host, sp, ease, K>>

(***************************************************************************)
(* align_edge_to_vector: rotate the two ends of the edge about its         *)
(* midpoint so that the edge points along target (or along -target when    *)
(* the angle to target exceeds 1.570796325 rad, which an exactly           *)
(* perpendicular edge does).                                               *)
(***************************************************************************)
SetCo(m, v, c) == [m EXCEPT !.co[v] = c]

align_edge_to_vector(m, edge, target_vector) ==
    LET v1 == m.ev[edge][1]
        v2 == m.ev[edge][2]
        Ends(midpoint, arm) ==
            After(<<midpoint, arm>>,
                  SetCo(SetCo(m, v1, VSub(midpoint, arm)), v2, VAdd(midpoint, arm)))
        Turned(target, half) ==
            After(<<target, half>>, Ends(EdgeCenter(m, edge), VScale(half, target)))
        Aligned(edge_vector, tv) ==
            After(<<edge_vector, tv>>,
                  IF Len2(edge_vector) = RZero THEN m
                  ELSE Turned(IF RLe(Dot(edge_vector, tv), RZero) THEN VNeg(tv) ELSE tv,
                              RDiv(Length(EdgeVector(m, edge)), R(2))))
    IN  Aligned(Normalized(EdgeVector(m, edge)), Normalized(target_vector))

(* Lines 483-510: align the top edge, then split the walls left and right.  *)
PartitionWalls(m, top_center) ==
    LET wall_edges == L.original_wall_edges \cup (L.top_edges \ {L.top_edge})
        side(e) == LET diff == VSub(EdgeCenter(m, e), top_center)
                   IN  After(diff, Dot(diff, L.perp))
        left == {e \in wall_edges : RLt(RZero, side(e))}
    IN  [L EXCEPT !.top_center = top_center,
                  !.left_edges = left,
                  !.right_edges = wall_edges \ left]

LancetPartition ==
    /\ op = "lancet" /\ pc = "partition"
    /\ \E m \in {align_edge_to_vector(mesh, L.top_edge, L.forward)} :
       \E top_center \in {EdgeCenter(m, L.top_edge)} :
           /\ mesh' = m
           /\ L' = PartitionWalls(m, top_center)
    /\ pc' = "subdivide_left"
    /\ UNCHANGED <<op, walk, env, mesh0, sel, out, lcb, host, sp, ease, K>>

(* A variant of subdivide without the test of curve_segments. *)
SubdivideAlways(side, rev) ==
    IF side = {} THEN {}
    ELSE {IF rev THEN <<L.top_edge, srt[Len(srt)]>> ELSE <<srt[Len(srt)], L.top_edge>> :
            srt \in sort_vertically(mesh, L.top_center, side)}

(* Lines 519-533: subdivide(side, rev) *)
SubdivideCalls(side, rev) ==
    IF side = {} \/ env.curve_segments < 1 THEN {}
    ELSE {IF rev THEN <<L.top_edge, srt[Len(srt)]>> ELSE <<srt[Len(srt)], L.top_edge>> :
            srt \in sort_vertically(mesh, L.top_center, side)}

SubdivideLeft ==
    /\ op = "lancet" /\ pc = "subdivide_left"
    /\ LET calls == SubdivideCalls(L.left_edges, FALSE)
       IN  IF calls = {}
           THEN /\ pc' = "subdivide_right"
                /\ lcb' = lcb
           ELSE \E c \in calls :
                /\ pc' = "lcb_enter"
                /\ lcb' = Call(c[1], c[2], env.curve_segments, "left", "subdivide_right")
    /\ UNCHANGED <<op, walk, env, mesh, mesh0, sel, out, L, host, sp, ease, K>>

SubdivideRight ==
    /\ op = "lancet" /\ pc = "subdivide_right"
    /\ LET calls == SubdivideCalls(L.right_edges, TRUE)
       IN  IF calls = {}
           THEN /\ pc' = "space_vertically_right"
                /\ lcb' = lcb
           ELSE \E c \in calls :
                /\ pc' = "lcb_enter"
                /\ lcb' = Call(c[1], c[2], env.curve_segments, "right",
                               "space_vertically_right")
    /\ UNCHANGED <<op, walk, env, mesh, mesh0, sel, out, L, host, sp, ease, K>>

(***************************************************************************)
(* The spacers (lines 539-611)                                             *)
(***************************************************************************)
(* A variant that moves only the first vertex of the wall. *)
move_to_first_only(m, wall, goal) ==
    SetCo(m, m.ev[wall][1],
          VAdd(m.co[m.ev[wall][1]], VSub(goal, EdgeCenter(m, wall))))

move_to(m, wall, goal) ==
    LET v1 == m.ev[wall][1]
        v2 == m.ev[wall][2]
        Shifted(movement_vector) ==
            After(movement_vector,
                  SetCo(SetCo(m, v1, VAdd(m.co[v1], movement_vector)),
                        v2, VAdd(m.co[v2], movement_vector)))
        From(wall_center) == After(wall_center, Shifted(VSub(goal, wall_center)))
    IN  From(EdgeCenter(m, wall))

(* A variant that also puts the wall's centre on the plane x = goal. *)
move_diagonally(m, wall, goal) ==
    move_to(m, wall, <<goal, EdgeCenter(m, wall)[2], goal>>)

move_vertically(m, wall, goal) ==
    LET From(wall_center) ==
            After(<<wall_center, goal>>,
                  move_to(m, wall, <<wall_center[1], wall_center[2], goal>>))
    IN  From(EdgeCenter(m, wall))

(* for w in walls: align_edge_to_vector(w, forward) *)
RECURSIVE AlignAll(_, _, _)
AlignAll(m, walls, forward) ==
    IF walls = <<>> THEN m
    ELSE LET Rest(aligned) == After(aligned, AlignAll(aligned, Tail(walls), forward))
         IN  Rest(align_edge_to_vector(m, Head(walls), forward))

(* Where wall number i of the sorted side (1 = end_of_straight) is put. *)
curve_start_height == RAdd(L.min_z, RMul(RSub(L.max_z, L.min_z), env.start_fraction))

(* A variant that spaces the walls downward from the start of the curve. *)
VerticalGoalDown(i, steps) ==
    RSub(curve_start_height,
         RMul(RNorm(i - 1, steps), RSub(L.max_z, curve_start_height)))

VerticalGoal(i, steps) ==
    RAdd(curve_start_height,
         RMul(RNorm(i - 1, steps), RSub(L.max_z, curve_start_height)))

RECURSIVE PlaceVertically(_, _, _)
PlaceVertically(m, srt, i) ==
    IF i > Len(srt) THEN m
    ELSE LET Rest(moved) == After(moved, PlaceVertically(moved, srt, i + 1))
         IN  Rest(move_vertically(m, srt[i], VerticalGoal(i, Len(srt))))

(* The possible results of space_vertically(walls), walls not empty. *)
space_vertically(m, walls) ==
    LET Placed(aligned) ==
            After(aligned,
                  {[walls |-> srt, mid |-> aligned.co,
                    post |-> PlaceVertically(aligned, srt, 1).co,
                    exact |-> \A w \in walls : RSqrtExact(Len2(EdgeVector(m, w)))] :
                      srt \in sort_vertically(aligned, L.top_center, walls)})
    IN  Placed(AlignAll(m, SortedSeq(walls), L.forward))

FlatXY(c) == <<c[1], c[2], RZero>>

(* A variant that leaves the wall at the height of xypos. *)
HorizontalGoalFlat(m, wall, xypos) == xypos

(* Vector((xypos.x, xypos.y, height)), height the z of the wall's centre. *)
HorizontalGoal(m, wall, xypos) == <<xypos[1], xypos[2], EdgeCenter(m, wall)[3]>>

RECURSIVE PlaceHorizontally(_, _, _, _, _, _)
PlaceHorizontally(m, srt, i, min_pos, distance, direction) ==
    IF i > Len(srt) THEN m
    ELSE LET fraction == fast_in_out_bezier(RNorm(i - 1, Len(srt)),
                                            env.sharpness_in, env.sharpness_out)
             xypos == VAdd(min_pos, VScale(RMul(fraction, distance), direction))
             Rest(moved) ==
                 After(moved, PlaceHorizontally(moved, srt, i + 1, min_pos, distance, direction))
         IN  Rest(move_to(m, srt[i], HorizontalGoal(m, srt[i], xypos)))

(* The possible results of space_horizontally(walls, direction), walls not empty. *)
space_horizontally(m, walls, direction) ==
    {LET min_pos == FlatXY(EdgeCenter(m, srt[1]))
         max_pos == FlatXY(EdgeCenter(m, L.top_edge))
     IN  [walls |-> srt, mid |-> m.co,
          post |-> PlaceHorizontally(m, srt, 2, min_pos,
                                     Length(VSub(max_pos, min_pos)), direction).co,
          exact |-> RSqrtExact(Len2(VSub(max_pos, min_pos)))] :
        srt \in sort_vertically(m, L.top_center, walls)}

Spaced(kind, side, r) ==
    [kind |-> kind, side |-> side, walls |-> r.walls, pre |-> mesh.co, mid |-> r.mid,
     post |-> r.post, exact |-> r.exact]
Unspaced(kind, side) ==
    [kind |-> kind, side |-> side, walls |-> <<>>, pre |-> mesh.co, mid |-> mesh.co,
     post |-> mesh.co, exact |-> TRUE]

SpaceStep(here, there, kind, side, results) ==
    /\ op = "lancet" /\ pc = here
    /\ IF results = {}
       THEN /\ mesh' = mesh
            /\ sp' = Unspaced(kind, side)
       ELSE \E r \in results :
            /\ mesh' = [mesh EXCEPT !.co = r.post]
            /\ sp' = Spaced(kind, side, r)
    /\ pc' = there
    /\ UNCHANGED <<op, walk, env, mesh0, sel, out, L, lcb, host, ease, K>>

SpaceVerticallyRight ==
    SpaceStep("space_vertically_right", "space_vertically_left", "vertical", "right",
              IF L.right_edges = {} THEN {} ELSE space_vertically(mesh, L.right_edges))

SpaceVerticallyLeft ==
    SpaceStep("space_vertically_left", "space_horizontally_right", "vertical", "left",
              IF L.left_edges = {} THEN {} ELSE space_vertically(mesh, L.left_edges))

SpaceHorizontallyRight ==
    SpaceStep("space_horizontally_right", "space_horizontally_left", "horizontal", "right",
              IF L.right_edges = {} THEN {}
              ELSE space_horizontally(mesh, L.right_edges, L.perp))

SpaceHorizontallyLeft ==
    SpaceStep("space_horizontally_left", "finish", "horizontal", "left",
              IF L.left_edges = {} THEN {}
              ELSE space_horizontally(mesh, L.left_edges, VNeg(L.perp)))

(* Lines 613-616: select_faces(selected_faces), report, FINISHED *)
LancetFinish ==
    /\ op = "lancet" /\ pc = "finish"
    /\ sel' = [sel EXCEPT !.faces = SeqToSet(L.selected_faces)]
    /\ out' = Finished("Converted inset to Lancet Window (Advanced)")
    /\ pc' = "done"
    /\ UNCHANGED <<op, walk, env, mesh, mesh0, L, lcb, host, sp, ease, K>>

(***************************************************************************)
(* MESH_OT_AddEdgeLoopToCone.execute (add_edge_loop_cone.py)               *)
(***************************************************************************)
(* bm.verts.new(co) *)
NewVertId(m) == SetMax(BMVerts(m) \cup {0}) + 1
VertsNew(m, co) ==
    [m EXCEPT !.co = [v \in BMVerts(m) \cup {NewVertId(m)} |->
                         IF v \in BMVerts(m) THEN m.co[v] ELSE co]]

(* A cone: apex 1 above a square base, four triangles and the base. *)
PyramidCoords ==
    << Vec(0, 0, 4), Vec(2, 0, 0), Vec(0, 2, 0), Vec(-2, 0, 0), Vec(0, -2, 0) >>
PyramidMesh ==
    MkMesh(PyramidCoords,
           << <<1, 2, 3>>, <<1, 3, 4>>, <<1, 4, 5>>, <<1, 5, 2>>, <<5, 4, 3, 2>> >>)
(* The cone with two of its triangles joined in one quad: vertex 3 is in   *)
(* the fan of the apex and has no edge to the apex.                        *)
QuadFanMesh ==
    MkMesh(PyramidCoords,
           << <<1, 2, 3, 4>>, <<1, 4, 5>>, <<1, 5, 2>>, <<5, 4, 3, 2>> >>)
(* An open fan of two triangles. *)
OpenFanMesh ==
    MkMesh(<< Vec(0, 0, 4), Vec(2, 0, 0), Vec(0, 2, 0), Vec(-2, 0, 0) >>,
           << <<1, 2, 3>>, <<1, 3, 4>> >>)
(* The cone and a loose vertex 6. *)
LooseVertMesh ==
    MkMesh(Append(PyramidCoords, Vec(6, 6, 6)),
           << <<1, 2, 3>>, <<1, 3, 4>>, <<1, 4, 5>>, <<1, 5, 2>>, <<5, 4, 3, 2>> >>)
(* A cone of three triangles on a triangular base. *)
TetraMesh ==
    MkMesh(<< Vec(0, 0, 3), Vec(2, 0, 0), Vec(-1, 2, 0), Vec(-1, -2, 0) >>,
           << <<1, 2, 3>>, <<1, 3, 4>>, <<1, 4, 2>>, <<4, 3, 2>> >>)
(* A cone on a concave base: seen from the middle of the border, vertices  *)
(* 3 and 5 lie in the same direction, and the order by angle is not the    *)
(* order of the vertices around the base.                                  *)
ChevronMesh ==
    MkMesh(<< <<R(0), RNorm(3, 2), R(3)>>, Vec(4, 0, 0), Vec(0, 4, 0), Vec(-4, 0, 0),
              Vec(0, 2, 0) >>,
           << <<1, 2, 3>>, <<1, 3, 4>>, <<1, 4, 5>>, <<1, 5, 2>>, <<5, 4, 3, 2>> >>)

ConeFractions == AllFractions \ {RZero, ROne}
ConeInputs ==
    { [mesh |-> PyramidMesh, objtype |-> "MESH", verts |-> {1}],
      [mesh |-> TetraMesh, objtype |-> "MESH", verts |-> {1}],
      [mesh |-> ChevronMesh, objtype |-> "MESH", verts |-> {1}],
      [mesh |-> QuadFanMesh, objtype |-> "MESH", verts |-> {1}],
      [mesh |-> OpenFanMesh, objtype |-> "MESH", verts |-> {1}],
      [mesh |-> PyramidMesh, objtype |-> "MESH", verts |-> {2}],
      [mesh |-> LooseVertMesh, objtype |-> "MESH", verts |-> {6}],
      [mesh |-> PyramidMesh, objtype |-> "MESH", verts |-> {}],
      [mesh |-> PyramidMesh, objtype |-> "MESH", verts |-> {1, 2}],
      [mesh |-> PyramidMesh, objtype |-> "CURVE", verts |-> {1}],
      [mesh |-> PyramidMesh, objtype |-> "NONE", verts |-> {1}] }

InitCone ==
    \E i \in ConeInputs, fr \in ConeFractions :
        /\ op = "cone"
        /\ pc = "start"
        /\ mesh = i.mesh
        /\ mesh0 = i.mesh
        /\ sel = [faces |-> {}, verts |-> i.verts]
        /\ env = [ objtype |-> i.objtype, curve_segments |-> 0, start_fraction |-> RZero,
                   sharpness_in |-> RZero, sharpness_out |-> RZero, fraction |-> fr ]
        /\ out = NoOut
        /\ L = NoLocals
        /\ lcb = NoFrame
        /\ host = NoHost
        /\ sp = NoSpacer
        /\ ease = NoEase
        /\ K = NoCone
        /\ walk = NoWalk

(* Lines 33-36 *)
ConeCheckObject ==
    /\ op = "cone" /\ pc = "start"
    /\ IF env.objtype # "MESH"
       THEN /\ out' = Cancelled("Active object must be a mesh")
            /\ pc' = "done"
       ELSE /\ out' = out
            /\ pc' = "cone_apex"
    /\ UNCHANGED <<op, walk, env, mesh, mesh0, sel, L, lcb, host, sp, ease, K>>

(* Lines 38-55: the apex and its fan *)
FanFaces(m, apex) == {f \in BMFaces(m) : apex \in FaceVerts(m, f)}
ConeSelectApex ==
    /\ op = "cone" /\ pc = "cone_apex"
    /\ IF Cardinality(sel.verts) # 1
       THEN /\ out' = Cancelled("Please select exactly one vertex as the apex.")
            /\ pc' = "done"
            /\ K' = K
       ELSE LET apex == CHOOSE v \in sel.verts : TRUE
            IN  IF FanFaces(mesh, apex) = {}
                THEN /\ out' = Cancelled("No faces found that share the apex.")
                     /\ pc' = "done"
                     /\ K' = [K EXCEPT !.apex = apex]
                ELSE /\ out' = out
                     /\ pc' = "cone_border"
                     /\ K' = [K EXCEPT !.apex = apex, !.fan_faces = FanFaces(mesh, apex)]
    /\ UNCHANGED <<op, walk, env, mesh, mesh0, sel, L, lcb, host, sp, ease>>

(* Lines 57-94: the border vertices, sorted by angle about the main        *)
(* direction.  The order of math.atan2 is computed without the             *)
(* normalisations: main_direction, ref_vec_projected and perp_ref are kept *)
(* up to a positive factor, which scales the two arguments of atan2 by     *)
(* positive factors and so keeps the order (and the equality) of angles.   *)
BorderVerts(m, apex, fan_faces) == (UNION {FaceVerts(m, f) : f \in fan_faces}) \ {apex}

RECURSIVE VSumOf(_, _)
VSumOf(m, S) ==
    IF S = {} THEN VZero
    ELSE LET v == CHOOSE x \in S : TRUE
             rest == VSumOf(m, S \ {v})
         IN  After(rest, VAdd(m.co[v], rest))

PlaneProj(vec, main) ==
    IF Len2(main) = RZero THEN vec
    ELSE VSub(vec, VScale(RDiv(Dot(vec, main), Len2(main)), main))

(* The arguments <<x, y>> of atan2(y, x) for border vertex v. *)
AngleArgs(m, apex, border_verts, ref, v) ==
    LET border_center == VScale(RNorm(1, Cardinality(border_verts)), VSumOf(m, border_verts))
        main_direction == VSub(border_center, m.co[apex])
        ref_vec_projected == PlaneProj(VSub(m.co[ref], m.co[apex]), main_direction)
        perp_ref == Cross(main_direction, ref_vec_projected)
        proj == PlaneProj(VSub(m.co[v], m.co[apex]), main_direction)
    IN  After(<<main_direction, ref_vec_projected, perp_ref, proj>>,
              <<Dot(proj, ref_vec_projected), Dot(proj, perp_ref)>>)

(* A number that grows with atan2(y, x): from -2 (for -pi) to 2 (for pi). *)
PseudoAngle(xy) ==
    LET x == xy[1]
        y == xy[2]
        p == RDiv(y, RAdd(RAbs(x), RAbs(y)))
    IN  IF x = RZero /\ y = RZero THEN RZero
        ELSE IF RLe(RZero, x) THEN p
        ELSE IF RLe(RZero, y) THEN RSub(R(2), p)
        ELSE RSub(R(-2), p)

(* angle_from_apex for every border vertex.  A vertex on the negative x    *)
(* axis has angle pi or -pi according to the sign of the zero y.           *)
AngleKeys(m, apex, border_verts, ref) ==
    LET args == [v \in border_verts |-> AngleArgs(m, apex, border_verts, ref, v)]
        atpi == {v \in border_verts : args[v][2] = RZero /\ RLt(args[v][1], RZero)}
    IN  {[v \in border_verts |->
            IF v \in neg THEN <<R(-2), RZero>> ELSE <<PseudoAngle(args[v]), RZero>>] :
         neg \in SUBSET atpi}

(* The possible values of border_verts after the sort. *)
SortedBorder(m, apex, border_verts) ==
    UNION {SortedSeqs(border_verts, key) :
             key \in UNION {AngleKeys(m, apex, border_verts, ref) : ref \in border_verts}}

ConeBorder ==
    /\ op = "cone" /\ pc = "cone_border"
    /\ LET border_verts == BorderVerts(mesh, K.apex, K.fan_faces)
       IN  IF Cardinality(border_verts) < 2
           THEN /\ out' = Cancelled("Not enough border vertices found.")
                /\ pc' = "done"
                /\ K' = K
           ELSE /\ out' = out
                /\ pc' = "cone_middle"
                /\ \E srt \in SortedBorder(mesh, K.apex, border_verts) :
                       K' = [K EXCEPT !.border_verts = srt]
    /\ UNCHANGED <<op, walk, env, mesh, mesh0, sel, L, lcb, host, sp, ease>>

(* Lines 96-115: a middle vertex on every spike; a border vertex without   *)
(* an edge to the apex ends the run after the vertices made so far.        *)
SpikeEdges(m, apex, bv) == {e \in LinkEdges(m, bv) : apex \in EdgeVerts(m, e)}
Lerp(a, b, fraction) == VAdd(a, VScale(fraction, VSub(b, a)))

RECURSIVE MiddleVerts(_, _, _, _, _)
MiddleVerts(m, apex, border_verts, i, middle) ==
    IF i > Len(border_verts) THEN [mesh |-> m, middle_loop |-> middle, ok |-> TRUE]
    ELSE IF SpikeEdges(m, apex, border_verts[i]) = {}
    THEN [mesh |-> m, middle_loop |-> middle, ok |-> FALSE]
    ELSE LET new_co == Lerp(m.co[apex], m.co[border_verts[i]], env.fraction)
             made == VertsNew(m, new_co)
         IN  After(made, MiddleVerts(made, apex, border_verts, i + 1,
                                     Append(middle, NewVertId(m))))

ConeMiddleLoop ==
    /\ op = "cone" /\ pc = "cone_middle"
    /\ LET r == MiddleVerts(mesh, K.apex, K.border_verts, 1, <<>>)
       IN  /\ mesh' = r.mesh
           /\ IF r.ok
              THEN /\ out' = out
                   /\ pc' = "cone_remove"
                   /\ K' = [K EXCEPT !.middle_loop = r.middle_loop,
                                     !.middle_verts =
                                         [i \in 1..Len(r.middle_loop) |->
                                             <<K.border_verts[i], r.middle_loop[i]>>]]
              ELSE /\ out' = Cancelled("Could not find a spike edge for a border vertex.")
                   /\ pc' = "done"
                   /\ K' = [K EXCEPT !.middle_loop = r.middle_loop]
    /\ UNCHANGED <<op, walk, env, mesh0, sel, L, lcb, host, sp, ease>>

(* bm.edges.remove(e): the edge goes, and with it the faces that use it. *)
EdgesRemove(m, e) ==
    LET faces == {f \in BMFaces(m) : e \notin FaceEdges(m, f)}
    IN  [m EXCEPT !.ev = [x \in BMEdges(m) \ {e} |-> m.ev[x]],
                  !.fv = [f \in faces |-> m.fv[f]],
                  !.fe = [f \in faces |-> m.fe[f]]]

(* try: bm.faces.new(verts) except Exception: pass.  The call raises when  *)
(* a face on the same vertices exists or a vertex is given twice; else it  *)
(* makes the face and the edges of its loop that do not exist yet.         *)
FacesNew(m, verts) ==
    LET n == Len(verts)
        pair(i) == {verts[i], verts[NextIdx(i, n)]}
        existing(i) == {e \in BMEdges(m) : EdgeVerts(m, e) = pair(i)}
        missing == {i \in 1..n : existing(i) = {}}
        maxE == SetMax(BMEdges(m) \cup {0})
        eid(i) == IF existing(i) # {} THEN SetMin(existing(i)) ELSE maxE + RankIn(missing, i)
        newF == SetMax(BMFaces(m) \cup {0}) + 1
        newE == {eid(i) : i \in missing}
    IN  IF \/ Cardinality(SeqToSet(verts)) # n
           \/ \E f \in BMFaces(m) : FaceVerts(m, f) = SeqToSet(verts)
        THEN m
        ELSE [m EXCEPT
                !.ev = [e \in BMEdges(m) \cup newE |->
                           IF e \in BMEdges(m) THEN m.ev[e]
                           ELSE LET i == CHOOSE j \in missing : eid(j) = e
                                IN  <<verts[i], verts[NextIdx(i, n)]>>],
                !.fv = [f \in BMFaces(m) \cup {newF} |->
                           IF f = newF THEN verts ELSE m.fv[f]],
                !.fe = [f \in BMFaces(m) \cup {newF} |->
                           IF f = newF THEN [i \in 1..n |-> eid(i)] ELSE m.fe[f]]]

(* Lines 117-133: one spike edge per border vertex is removed. *)
RECURSIVE RemoveAll(_, _)
RemoveAll(m, edges) ==
    IF edges = <<>> THEN m
    ELSE LET removed == IF Head(edges) \in BMEdges(m) THEN EdgesRemove(m, Head(edges)) ELSE m
         IN  After(removed, RemoveAll(removed, Tail(edges)))

ConeRemoveSpikes ==
    /\ op = "cone" /\ pc = "cone_remove"
    /\ LET spikes == [i \in 1..Len(K.border_verts) |->
                         SetMin(SpikeEdges(mesh, K.apex, K.border_verts[i]))]
       IN  /\ K' = [K EXCEPT !.spike_edges_to_delete = spikes]
           /\ mesh' = RemoveAll(mesh, spikes)
    /\ pc' = "cone_fan"
    /\ UNCHANGED <<op, walk, env, mesh0, sel, out, L, lcb, host, sp, ease>>

(* Lines 135-144: the triangles from the apex to consecutive middle vertices. *)
RECURSIVE FillFan(_, _, _, _)
FillFan(m, apex, middle_loop, i) ==
    IF i > Len(middle_loop) THEN m
    ELSE LET made == FacesNew(m, <<apex, middle_loop[i],
                                   middle_loop[NextIdx(i, Len(middle_loop))]>>)
         IN  After(made, FillFan(made, apex, middle_loop, i + 1))

ConeFillFan ==
    /\ op = "cone" /\ pc = "cone_fan"
    /\ mesh' = FillFan(mesh, K.apex, K.middle_loop, 1)
    /\ pc' = "cone_ring"
    /\ UNCHANGED <<op, walk, env, mesh0, sel, out, L, lcb, host, sp, ease, K>>

(* Lines 146-157: the quads from the border to the middle loop. *)
(* A variant that leaves the ring open: no quad from the last border       *)
(* vertex back to the first.                                               *)
RECURSIVE FillRingOpen(_, _, _, _)
FillRingOpen(m, border_verts, middle_loop, i) ==
    IF i >= Len(middle_loop) THEN m
    ELSE LET Rest(made) == After(made, FillRingOpen(made, border_verts, middle_loop, i + 1))
         IN  Rest(FacesNew(m, <<middle_loop[i], border_verts[i],
                                border_verts[i + 1], middle_loop[i + 1]>>))

RECURSIVE FillRing(_, _, _, _)
FillRing(m, border_verts, middle_loop, i) ==
    IF i > Len(middle_loop) THEN m
    ELSE LET j == NextIdx(i, Len(middle_loop))
             made == FacesNew(m, <<middle_loop[i], border_verts[i],
                                   border_verts[NextIdx(i, Len(border_verts))],
                                   middle_loop[j]>>)
         IN  After(made, FillRing(made, border_verts, middle_loop, i + 1))

ConeFillRing ==
    /\ op = "cone" /\ pc = "cone_ring"
    /\ mesh' = FillRing(mesh, K.border_verts, K.middle_loop, 1)
    /\ pc' = "cone_select"
    /\ UNCHANGED <<op, walk, env, mesh0, sel, out, L, lcb, host, sp, ease, K>>

(* Lines 159-168: every face is deselected, the faces that touch a middle  *)
(* vertex are selected; the host then makes the normals consistent, which  *)
(* moves nothing.  Whether setting face.select also sets the flag of the   *)
(* face's vertices depends on the host: both outcomes are kept.            *)
TouchesAny(m, middle_loop, f) == TRUE
TouchesMiddle(m, middle_loop, f) == FaceVerts(m, f) \cap SeqToSet(middle_loop) # {}
ConeSelectLoop ==
    /\ op = "cone" /\ pc = "cone_select"
    /\ LET faces == {f \in BMFaces(mesh) : TouchesMiddle(mesh, K.middle_loop, f)}
       IN  \E verts \in {sel.verts, UNION {FaceVerts(mesh, f) : f \in faces}} :
               sel' = [faces |-> faces, verts |-> verts]
    /\ host' = Logged(host, "normals_make_consistent")
    /\ pc' = "cone_finish"
    /\ UNCHANGED <<op, walk, env, mesh, mesh0, out, L, lcb, sp, ease, K>>

(* Lines 171-179: every face is deselected, the apex is selected. *)
ConeFinish ==
    /\ op = "cone" /\ pc = "cone_finish"
    /\ \E verts \in {{K.apex}, sel.verts \cup {K.apex}} :
           sel' = [faces |-> {}, verts |-> verts]
    /\ out' = Finished("Added Edge Loop To Cone")
    /\ pc' = "done"
    /\ UNCHANGED <<op, walk, env, mesh, mesh0, L, lcb, host, sp, ease, K>>

(***************************************************************************)
(* Calls of fast_in_out_bezier on its own: t and the two sharpness values  *)
(* are drawn from the multiples of 1 / EaseDen between -EaseSpan and       *)
(* EaseSpan (the operator declares sharpness_in in [-2, 3] and             *)
(* sharpness_out in [-1, 3]; the function accepts any number).             *)
(***************************************************************************)
EaseDen == 2
EaseSpan == 3
EaseGrid == {RNorm(i, EaseDen) : i \in (-(EaseSpan * EaseDen))..(EaseSpan * EaseDen)}
NoMesh == [co |-> <<>>, ev |-> <<>>, fv |-> <<>>, fe |-> <<>>]

InitEase ==
    /\ op = "ease"
    /\ pc = "call"
    /\ mesh = NoMesh
    /\ mesh0 = NoMesh
    /\ sel = [faces |-> {}, verts |-> {}]
    /\ env = [ objtype |-> "NONE", curve_segments |-> 0, start_fraction |-> RZero,
               sharpness_in |-> RZero, sharpness_out |-> RZero, fraction |-> RNorm(1, 2) ]
    /\ out = NoOut
    /\ L = NoLocals
    /\ lcb = NoFrame
    /\ host = NoHost
    /\ sp = NoSpacer
    /\ ease = NoEase
    /\ K = NoCone
    /\ walk = NoWalk

EaseCall ==
    /\ op = "ease" /\ pc = "call"
    /\ \E t \in EaseGrid, s_in \in EaseGrid, s_out \in EaseGrid :
           ease' = [t |-> t, s_in |-> s_in, s_out |-> s_out,
                    res |-> fast_in_out_bezier(t, s_in, s_out)]
    /\ pc' = "returned"
    /\ UNCHANGED <<op, walk, env, mesh, mesh0, sel, out, L, lcb, host, sp, K>>

NextEase == EaseCall
SpecEase == InitEase /\ [][NextEase]_vars

(***************************************************************************)
(* Calls of get_window_faces_between on its own.  The mesh is a row of     *)
(* three quads, a row of two quads closed by a triangle, a closed band of  *)
(* four quads, or that band with a flap; first and second are any two     *)
(* edges, new_faces any non-empty set of faces, and old_faces is empty,    *)
(* the remaining faces, or a set of edges (what loopcut_between passes).   *)
(***************************************************************************)
StripMesh ==
    MkMesh(<< Vec(0, 0, 0), Vec(1, 0, 0), Vec(2, 0, 0), Vec(3, 0, 0),
              Vec(0, 0, 1), Vec(1, 0, 1), Vec(2, 0, 1), Vec(3, 0, 1) >>,
           << <<1, 2, 6, 5>>, <<2, 3, 7, 6>>, <<3, 4, 8, 7>> >>)
StripTriMesh ==
    MkMesh(<< Vec(0, 0, 0), Vec(1, 0, 0), Vec(2, 0, 0), Vec(3, 0, 0),
              Vec(0, 0, 1), Vec(1, 0, 1), Vec(2, 0, 1) >>,
           << <<1, 2, 6, 5>>, <<2, 3, 7, 6>>, <<3, 4, 7>> >>)
BandMesh ==
    MkMesh(<< Vec(0, 0, 0), Vec(1, 0, 0), Vec(1, 1, 0), Vec(0, 1, 0),
              Vec(0, 0, 1), Vec(1, 0, 1), Vec(1, 1, 1), Vec(0, 1, 1) >>,
           << <<1, 2, 6, 5>>, <<2, 3, 7, 6>>, <<3, 4, 8, 7>>, <<4, 1, 5, 8>> >>)
(* The band with a quad hinged on the upper edge of its first face: the    *)
(* flap's outer edges touch no face of the band.                           *)
FlapBandMesh ==
    MkMesh(<< Vec(0, 0, 0), Vec(1, 0, 0), Vec(1, 1, 0), Vec(0, 1, 0),
              Vec(0, 0, 1), Vec(1, 0, 1), Vec(1, 1, 1), Vec(0, 1, 1),
              Vec(0, 0, 2), Vec(1, 0, 2) >>,
           << <<1, 2, 6, 5>>, <<2, 3, 7, 6>>, <<3, 4, 8, 7>>, <<4, 1, 5, 8>>,
              <<5, 6, 10, 9>> >>)
WalkMeshes == {StripMesh, StripTriMesh, BandMesh, FlapBandMesh}
OldFacesChoices(m, new_faces) ==
    { {}, {<<"face", f>> : f \in BMFaces(m) \ new_faces},
      {<<"edge", e>> : e \in BMEdges(m)} }

InitWalk ==
    /\ op = "walk"
    /\ pc = "call"
    /\ mesh \in WalkMeshes
    /\ mesh0 = mesh
    /\ sel = [faces |-> {}, verts |-> {}]
    /\ env = [ objtype |-> "MESH", curve_segments |-> 0, start_fraction |-> RZero,
               sharpness_in |-> RZero, sharpness_out |-> RZero, fraction |-> RNorm(1, 2) ]
    /\ out = NoOut
    /\ L = NoLocals
    /\ lcb = NoFrame
    /\ host = NoHost
    /\ sp = NoSpacer
    /\ ease = NoEase
    /\ K = NoCone
    /\ \E first \in BMEdges(mesh), second \in BMEdges(mesh),
          new_faces \in SUBSET BMFaces(mesh) \ {{}} :
          \E old_faces \in OldFacesChoices(mesh, new_faces) :
              walk = [NoWalk EXCEPT !.first = first, !.second = second,
                                    !.new_faces = new_faces, !.old_faces = old_faces]

WalkCall ==
    /\ op = "walk" /\ pc = "call"
    /\ \E w \in get_window_faces_between(mesh, walk.first, walk.second,
                                         walk.new_faces, walk.old_faces) :
           /\ walk' = [walk EXCEPT !.faces = w.faces, !.exc = w.exc]
           /\ pc' = IF w.exc = "" THEN "returned" ELSE "raised"
    /\ UNCHANGED <<op, env, mesh, mesh0, sel, out, L, lcb, host, sp, ease, K>>

NextWalk == WalkCall
SpecWalk == InitWalk /\ [][NextWalk]_vars


Init == InitLancet \/ InitCone
Next ==
    \/ ConeCheckObject \/ ConeSelectApex \/ ConeBorder \/ ConeMiddleLoop
    \/ ConeRemoveSpikes \/ ConeFillFan \/ ConeFillRing \/ ConeSelectLoop \/ ConeFinish
    \/ LancetCheckObject \/ LancetClassify \/ LancetAxis
    \/ LancetTopMerge \/ LancetTopMergeAfter \/ LancetPartition
    \/ SubdivideLeft \/ SubdivideRight
    \/ LcbEnter \/ HostLoopCutSlide \/ HostSleep \/ HostViewLayerUpdate \/ LcbCollect
    \/ SpaceVerticallyRight \/ SpaceVerticallyLeft
    \/ SpaceHorizontallyRight \/ SpaceHorizontallyLeft
    \/ LancetFinish
Spec == Init /\ [][Next]_vars


(***************************************************************************)
(* Properties                                                              *)
(***************************************************************************)
RegionFaces == SeqToSet(L.selected_faces)
CreatedEdges == BMEdges(mesh) \ lcb.existing_edges
CreatedEdgesTouchingRegion ==
    {e \in CreatedEdges : LinkFaces(mesh, e) \cap RegionFaces # {}}

C2_NoCommonFaceIsNoOp ==
    [][ (pc = "lcb_enter"
         /\ CommonFace(mesh, L.selected_faces, lcb.first, lcb.second) = None)
        => /\ out'.exc = ""
           /\ pc' = lcb.ret_pc
           /\ host' = host
           /\ mesh' = mesh
           /\ L' = L ]_vars

(* C4: when axis detection runs on a boundary-edge set with fewer than two *)
(* edges, the operator reports an error and ends CANCELLED without raising *)
(* and with the mesh as it was when the run started.                       *)
C4_NoAxisIsReported ==
    [][ (pc = "axis" /\ Cardinality(L.boundary_edges) < 2)
        => /\ pc' = "done"
           /\ out'.ret = "CANCELLED"
           /\ out'.msg # ""
           /\ out'.exc = ""
           /\ mesh' = mesh0 ]_vars

(* The walls of the last spacer call and their geometry in a coordinate map. *)
SpWalls == SeqToSet(sp.walls)
SpVerts == DOMAIN sp.pre
WallVector(co, w) == VSub(co[mesh.ev[w][2]], co[mesh.ev[w][1]])
WallZ(co, w) == RDiv(RAdd(co[mesh.ev[w][1]][3], co[mesh.ev[w][2]][3]), R(2))
SameXY(a, b) == a[1] = b[1] /\ a[2] = b[2]
(* w shares no vertex with another wall of the side *)
Isolated(w) ==
    \A u \in SpWalls \ {w} : EdgeVerts(mesh, u) \cap EdgeVerts(mesh, w) = {}

(* C5 as stated: after space_vertically every vertex has the X and Y it    *)
(* had before the call, the alignment of the walls included.               *)
C5_VerticalKeepsXY ==
    sp.kind = "vertical" => \A v \in SpVerts : SameXY(sp.post[v], sp.pre[v])

(* C5, amended: the placement of the walls by move_vertically changes no X *)
(* and no Y (every vertex has after space_vertically the X and Y it had    *)
(* after the alignment of the walls), and a vertex that is on no wall of   *)
(* the side is not moved at all; X and Y change only where                 *)
(* align_edge_to_vector turns a wall.                                      *)
C5_PlacementKeepsXY ==
    sp.kind = "vertical" =>
        \A v \in SpVerts :
            /\ SameXY(sp.post[v], sp.mid[v])
            /\ (\A w \in SpWalls : v \notin EdgeVerts(mesh, w)) => sp.post[v] = sp.pre[v]

(* space_vertically has turned a wall (X or Y changed) and then moved one. *)
C5_Witness ==
    /\ sp.kind = "vertical"
    /\ \E v \in SpVerts : ~SameXY(sp.mid[v], sp.pre[v])
    /\ \E v \in SpVerts : sp.post[v][3] # sp.mid[v][3]

(* The final heights of consecutive walls of the sorted side. *)
WallPairs == 1..(Len(sp.walls) - 1)
RisesAt(i) == RLt(WallZ(sp.post, sp.walls[i]), WallZ(sp.post, sp.walls[i + 1]))
NotFallsAt(i) == RLe(WallZ(sp.post, sp.walls[i]), WallZ(sp.post, sp.walls[i + 1]))
AllIsolated == \A w \in SpWalls : Isolated(w)

(* C6 as stated: after space_vertically on a side with two or more walls,  *)
(* for every start_fraction in [0, 1] each wall of the sorted side ends    *)
(* strictly below the next one.                                            *)
C6_StrictlyOrdered ==
    (sp.kind = "vertical" /\ Len(sp.walls) >= 2) => \A i \in WallPairs : RisesAt(i)

(* C6, amended: after space_vertically on a side with two or more walls    *)
(* that share no vertices, no wall of the sorted side ends above the next  *)
(* one; each ends strictly below the next one when start_fraction < 1 and  *)
(* the region has a positive height (max_z > min_z); with start_fraction   *)
(* = 1 every wall ends at max_z.                                           *)
C6_OrderedByZ ==
    (sp.kind = "vertical" /\ Len(sp.walls) >= 2 /\ AllIsolated) =>
        /\ \A i \in WallPairs : NotFallsAt(i)
        /\ (RLt(env.start_fraction, ROne) /\ RLt(L.min_z, L.max_z))
               => \A i \in WallPairs : RisesAt(i)
        /\ env.start_fraction = ROne
               => \A w \in SpWalls : WallZ(sp.post, w) = L.max_z

(* space_vertically has spaced three or more walls with start_fraction < 1, *)
(* and moved one of them.                                                   *)
C6_Witness ==
    /\ sp.kind = "vertical" /\ Len(sp.walls) >= 3 /\ AllIsolated
    /\ RLt(env.start_fraction, ROne)
    /\ \E w \in SpWalls : WallZ(sp.post, w) # WallZ(sp.pre, w)

(* C7: space_horizontally changes no Z: every vertex has after the call    *)
(* the Z it had before, for either direction, also when walls of the side  *)
(* share a vertex.                                                         *)
C7_HorizontalKeepsZ ==
    sp.kind = "horizontal" => \A v \in SpVerts : sp.post[v][3] = sp.pre[v][3]

(* space_horizontally has moved a vertex that two walls of the side share. *)
C7_Witness ==
    /\ sp.kind = "horizontal"
    /\ \E w \in SpWalls, u \in SpWalls :
          /\ w # u
          /\ \E v \in EdgeVerts(mesh, w) \cap EdgeVerts(mesh, u) : sp.post[v] # sp.pre[v]

(* C8 as stated: after space_vertically or space_horizontally the vector   *)
(* between the two endpoints of every wall is the one before the call.     *)
C8_EndpointVectorKept ==
    sp.kind # "" => \A w \in SpWalls : WallVector(sp.post, w) = WallVector(sp.pre, w)

(* C8, amended: the placement of the walls (move_to, move_vertically)      *)
(* keeps the vector between the two endpoints of every wall that shares no *)
(* vertex with another wall of the side: it is after the spacer what it    *)
(* was after the spacer's alignment step (for space_horizontally, which    *)
(* aligns nothing: what it was before the call).  The alignment step of    *)
(* space_vertically turns a wall about its midpoint instead.               *)
C8_PlacementKeepsVector ==
    sp.kind # "" =>
        /\ sp.kind = "horizontal" => sp.mid = sp.pre
        /\ \A w \in SpWalls :
              Isolated(w) => WallVector(sp.post, w) = WallVector(sp.mid, w)

(* space_vertically has turned a wall that shares no vertex with another   *)
(* wall and then moved it.                                                 *)
C8_Witness ==
    /\ sp.kind = "vertical"
    /\ \E w \in SpWalls :
          /\ Isolated(w)
          /\ WallVector(sp.mid, w) # WallVector(sp.pre, w)
          /\ WallZ(sp.post, w) # WallZ(sp.mid, w)

(* The mesh has the vertices, edges and faces of the mesh at the start.    *)
SameTopology ==
    /\ BMVerts(mesh) = BMVerts(mesh0)
    /\ mesh.ev = mesh0.ev /\ mesh.fv = mesh0.fv /\ mesh.fe = mesh0.fe
LoopCuts == {i \in 1..Len(host.log) : host.log[i] = "loopcut_slide"}
(* The top edges of the selection as the run found them at its start.      *)
TopEdgesAtStart ==
    LET faces == SortedSeq(RegionFaces \cap BMFaces(mesh0))
        selected_edges == SelectedEdgesOf(mesh0, faces)
        max_z == RMaxOf({edge_avg_z(mesh0, e) : e \in selected_edges})
    IN  TopEdgesOf(mesh0, selected_edges, BoundaryEdgesOf(mesh0, faces), max_z)

(* C10 as stated: in a run of the lancet operator with curve_segments = 0  *)
(* the host's loop cut is never invoked and no vertex, edge or face is     *)
(* created.                                                                *)
C10_NothingCreated ==
    (op = "lancet" /\ env.curve_segments = 0) => (LoopCuts = {} /\ SameTopology)

(* C10, amended: in a run of the lancet operator with curve_segments = 0   *)
(* subdivide is a no-op for both sides (no call of loopcut_between is made *)
(* for the left or the right side); the only loop cut of the run is the    *)
(* single cut of the top-edge merge, which is made when the number of top  *)
(* edges is even; in a run with an odd number of top edges the host's loop *)
(* cut is not invoked and no vertex, edge or face is created.              *)
C10_OnlyTopMergeCuts ==
    (op = "lancet" /\ env.curve_segments = 0) =>
        /\ lcb.status # "" => (lcb.side = "top" /\ lcb.n = 1)
        /\ Cardinality(LoopCuts) <= 1
        /\ (L.selected_faces = <<>> \/ Cardinality(TopEdgesAtStart) % 2 = 1)
               => (host.log = <<>> /\ SameTopology)
        /\ LoopCuts # {} => Cardinality(TopEdgesAtStart) % 2 = 0

(* A run with curve_segments = 0 and one top edge has finished and moved   *)
(* vertices.                                                               *)
C10_Witness ==
    /\ op = "lancet" /\ env.curve_segments = 0 /\ out.ret = "FINISHED"
    /\ Cardinality(TopEdgesAtStart) = 1
    /\ L.left_edges # {} /\ L.right_edges # {}
    /\ mesh.co # mesh0.co

(* C9: fast_in_out_bezier pins the endpoints for every pair of sharpness   *)
(* values, those outside [-2, 2] included: every t <= 0 (t = 0 included)   *)
(* gives 0 and every t >= 1 (t = 1 included) gives 1.                      *)
C9_EndpointPinning ==
    (op = "ease" /\ pc = "returned") =>
        /\ RLe(ease.t, RZero) => ease.res = RZero
        /\ RLe(ROne, ease.t) => ease.res = ROne

(* A call with t above 1 and both sharpness values outside [-2, 2] has     *)
(* returned 1.                                                             *)
C9_Witness ==
    /\ op = "ease" /\ pc = "returned"
    /\ RLt(ROne, ease.t) /\ RLt(R(2), ease.s_in) /\ RLt(ease.s_out, R(-2))
    /\ ease.res = ROne

(* C3: in both operators, a run that ends by reporting an error and        *)
(* returning CANCELLED has created, removed and moved nothing: the mesh    *)
(* (coordinates, edges and faces) is the one the run started with.         *)
C3_CancelledLeavesMesh ==
    out.ret = "CANCELLED" => mesh = mesh0

(***************************************************************************)
(* The cone operator's rewrite of a closed fan                             *)
(***************************************************************************)
(* The apex has a closed fan of triangles in m: every face at the apex is  *)
(* a triangle, and every border vertex is on two of them and has an edge   *)
(* to the apex.                                                            *)
ClosedFan(m, apex) ==
    LET fan == FanFaces(m, apex)
        border == BorderVerts(m, apex, fan)
    IN  /\ Cardinality(fan) >= 3
        /\ \A f \in fan : Len(m.fv[f]) = 3
        /\ Cardinality(border) = Cardinality(fan)
        /\ \A b \in border :
              /\ Cardinality({f \in fan : b \in FaceVerts(m, f)}) = 2
              /\ SpikeEdges(m, apex, b) # {}
EdgeEnds(m) == {EdgeVerts(m, e) : e \in BMEdges(m)}
FaceLoops(m) == {m.fv[f] : f \in BMFaces(m)}
ConeDone == op = "cone" /\ out.ret = "FINISHED"

(* C11: a finished run of the cone operator on a closed fan of n triangles *)
(* has created exactly n vertices, the middle vertex of spike i at         *)
(* lerp(apex, border vertex i, fraction); has removed exactly the n edges  *)
(* from the apex to the border vertices; and has created exactly 2n faces: *)
(* the triangle (apex, m_i, m_i+1) and the quad (m_i, b_i, b_i+1, m_i+1)   *)
(* for every i, in the order of the sorted border (cyclic).                *)
C11_ClosedFanRewrite ==
    (ConeDone /\ ClosedFan(mesh0, K.apex)) =>
        LET n == Cardinality(FanFaces(mesh0, K.apex))
            b == K.border_verts
            ml == K.middle_loop
            tris == {<<K.apex, ml[i], ml[NextIdx(i, n)]>> : i \in 1..n}
            quads == {<<ml[i], b[i], b[NextIdx(i, n)], ml[NextIdx(i, n)]>> : i \in 1..n}
            fresh == {f \in BMFaces(mesh) : mesh.fv[f] \notin FaceLoops(mesh0)}
        IN  /\ Len(b) = n /\ Len(ml) = n
            /\ SeqToSet(b) = BorderVerts(mesh0, K.apex, FanFaces(mesh0, K.apex))
            /\ BMVerts(mesh) \ BMVerts(mesh0) = SeqToSet(ml)
            /\ Cardinality(SeqToSet(ml)) = n
            /\ \A v \in BMVerts(mesh0) : mesh.co[v] = mesh0.co[v]
            /\ \A i \in 1..n :
                  mesh.co[ml[i]] = Lerp(mesh0.co[K.apex], mesh0.co[b[i]], env.fraction)
            /\ EdgeEnds(mesh0) \ EdgeEnds(mesh) = {{K.apex, b[i]} : i \in 1..n}
            /\ Cardinality(EdgeEnds(mesh0) \ EdgeEnds(mesh)) = n
            /\ Cardinality(tris) = n /\ Cardinality(quads) = n
            /\ {mesh.fv[f] : f \in fresh} = tris \cup quads
            /\ Cardinality(fresh) = 2 * n

(* A run on a closed fan of four triangles has finished. *)
C11_Witness ==
    /\ ConeDone /\ ClosedFan(mesh0, K.apex)
    /\ Len(K.border_verts) = 4
    /\ mesh0 = ChevronMesh

(* The faces of the mesh with a vertex of the middle loop. *)
MiddleFaces == {f \in BMFaces(mesh) : FaceVerts(mesh, f) \cap SeqToSet(K.middle_loop) # {}}

(* C12 as stated: when the cone operator has finished, the selected faces  *)
(* are exactly the faces that touch a vertex of the middle loop.           *)
C12_FinalSelectionIsLoop ==
    ConeDone => sel.faces = MiddleFaces

(* C12, amended: the faces that touch a vertex of the middle loop are      *)
(* exactly the faces selected while the host makes the normals consistent  *)
(* (after line 166); when the operator has finished no face is selected    *)
(* and the apex is selected.                                               *)
C12_SelectedForNormalsOnly ==
    /\ (op = "cone" /\ pc = "cone_finish") => sel.faces = MiddleFaces
    /\ ConeDone => (sel.faces = {} /\ K.apex \in sel.verts)

(* A run on a closed fan has finished: faces touch the middle loop, one    *)
(* face (the base) does not, and none is selected.                         *)
C12_Witness ==
    /\ ConeDone /\ ClosedFan(mesh0, K.apex)
    /\ MiddleFaces # {} /\ MiddleFaces # BMFaces(mesh)
    /\ sel.faces = {}

(***************************************************************************)
(* The window region's bookkeeping                                         *)
(***************************************************************************)
(* The classification is done and no loopcut_between call is under way.    *)
InCall == pc \in {"lcb_enter", "lcb_cut", "lcb_sleep", "lcb_flush", "lcb_delta"}
RegionSettled ==
    op = "lancet" /\ L.boundary_edges # {} /\ ~InCall /\ out.exc = ""
(* The number of faces of the region's list on edge e. *)
InRegionCount(e) ==
    Cardinality(LinkFaces(mesh, e) \cap SeqToSet(L.selected_faces))

RECURSIVE StripFrom(_, _, _)
StripFrom(cand, f, e) ==
    IF lcb.second \in FaceEdges(mesh, f) \/ ~IsQuad(mesh, f) THEN {f}
    ELSE LET opp == OppInQuad(mesh, f, e)
             nxt == (LinkFaces(mesh, opp) \ {f}) \cap cand
         IN  IF nxt = {} THEN {f}
             ELSE {f} \cup StripFrom(cand \ {f}, CHOOSE g \in nxt : TRUE, opp)
StripFaces ==
    LET cand == lcb.new_faces \cup {lcb.face}
        start == {f \in cand : lcb.first \in FaceEdges(mesh, f)}
    IN  IF start = {} THEN {} ELSE StripFrom(cand, CHOOSE f \in start : TRUE, lcb.first)
NoRepeats(s) == \A i, j \in 1..Len(s) : s[i] = s[j] => i = j
CallReturned == op = "lancet" /\ lcb.status = "returned"

(* C14: when loopcut_between has returned, every new face of the strip     *)
(* between first and second is in the region's list, no face is in the     *)
(* list twice, the returned faces are the faces the call appended, and the *)
(* list of faces and the sets of edges have only grown.                    *)
C14_CutPostcondition ==
    CallReturned =>
        /\ (StripFaces \cap lcb.new_faces) \subseteq SeqToSet(L.selected_faces)
        /\ NoRepeats(L.selected_faces)
        /\ \/ pc # lcb.ret_pc
           \/ /\ L.selected_faces = lcb.faces0 \o lcb.new_window_faces
              /\ lcb.all_edges0 \subseteq L.selected_edges
              /\ lcb.boundary0 \subseteq L.boundary_edges
              /\ lcb.side0 \subseteq SideList(L, lcb.side)

(* The run has raised before the walls were partitioned, that is in the    *)
(* stage that finds the top edge (lines 424-483).                          *)
TopStageFailed ==
    op = "lancet" /\ out.exc # "" /\ lcb.side \notin {"left", "right"}
CentralPairs ==
    {{srt[Len(srt) \div 2], srt[(Len(srt) \div 2) + 1]} :
        srt \in SortedSeqs(TopEdgesAtStart, LateralKeys(mesh0, L.perp, TopEdgesAtStart))}

(* C15: for every selection with a boundary edge the stage that finds the  *)
(* top edge does not fail and ends with one top edge: with one top edge    *)
(* at the start no loop cut is made, with an even number exactly one, and  *)
(* that one between the two top edges in the middle of the lateral order.  *)
C15_TopEdgeStage ==
    (op = "lancet" /\ L.selected_faces # <<>>
       /\ BoundaryEdgesOf(mesh0, SortedSeq(RegionFaces \cap BMFaces(mesh0))) # {}) =>
        /\ ~TopStageFailed
        /\ pc = "partition" =>
              /\ L.top_edge \in L.top_edges
              /\ Cardinality(TopEdgesAtStart) = 1 => LoopCuts = {}
              /\ Cardinality(TopEdgesAtStart) % 2 = 0 =>
                    /\ Cardinality(LoopCuts) = 1
                    /\ lcb.side = "top" /\ lcb.n = 1
                    /\ {lcb.first, lcb.second} \in CentralPairs

(***************************************************************************)
(* C16: running out of faces is not an error.  When the region walk finds  *)
(* no next face (no edge opposite the entry edge, or no face across that   *)
(* opposite edge) or comes back to a visited face, it ends without raising *)
(* and returns the faces collected so far: no call of                      *)
(* get_window_faces_between raises.                                        *)
(***************************************************************************)
C16_ExhaustionReturns == op = "walk" => pc # "raised"

(***************************************************************************)
(* C17: the region walk goes through new faces only.  Every face that      *)
(* get_window_faces_between returns to loopcut_between was created by that *)
(* call's cut; no face that existed before the cut is collected or         *)
(* appended to the region.                                                 *)
(***************************************************************************)
C17_WalkCollectsNewOnly ==
    CallReturned =>
        /\ SeqToSet(lcb.new_window_faces) \subseteq lcb.new_faces
        /\ SeqToSet(lcb.new_window_faces) \cap lcb.existing_faces = {}

(***************************************************************************)
(* Edge tracking of a returned loopcut_between call, relative to a set S   *)
(* of faces: a new edge is tracked iff it touches a face of S; a tracked   *)
(* new edge is a boundary edge iff it touches a face outside S, and is     *)
(* otherwise returned and put on the side's edge list.                     *)
(***************************************************************************)
NewTracked == L.selected_edges \cap lcb.new_edges
NewBoundary == L.boundary_edges \cap lcb.new_edges
NewlyCollected == SeqToSet(lcb.new_window_faces)
RegionAfter == SeqToSet(L.selected_faces)
EdgeTracking(S) ==
    /\ \A e \in lcb.new_edges :
          /\ e \in NewTracked <=> LinkFaces(mesh, e) \cap S # {}
          /\ e \in NewTracked => (e \in NewBoundary <=> LinkFaces(mesh, e) \ S # {})
          /\ e \in NewBoundary => e \in NewTracked
    /\ lcb.new_window_edges = NewTracked \ NewBoundary
    /\ lcb.new_window_edges \subseteq SideList(L, lcb.side)
    /\ lcb.new_window_edges \cap NewBoundary = {}

(* C18 as stated: after a cut the new edges are tracked, marked boundary   *)
(* or returned as wall/top edges according to the faces they touch among   *)
(* the newly collected faces.                                              *)
C18_TrackingByNewFaces == CallReturned => EdgeTracking(NewlyCollected)

(* C18, amended: after a cut the new edges are tracked, marked boundary or *)
(* returned as wall/top edges according to the faces they touch in the     *)
(* whole region list as it is after the call's append; no new edge is both *)
(* marked boundary and returned, and no new edge touching no region face   *)
(* is tracked.                                                             *)
C18_TrackingByRegion == CallReturned => EdgeTracking(RegionAfter)
C18_Witness ==
    /\ CallReturned
    /\ NewBoundary # {}
    /\ lcb.new_window_edges # {}
    /\ \E e \in NewTracked : /\ LinkFaces(mesh, e) \cap NewlyCollected # {}
                             /\ LinkFaces(mesh, e) \ NewlyCollected # {}
                             /\ LinkFaces(mesh, e) \subseteq RegionAfter

(***************************************************************************)
(* The initial classification has run and no cut has changed its sets.     *)
(***************************************************************************)
Classified == op = "lancet" /\ L.selected_faces # <<>> /\ LoopCuts = {}
SelectedCount(e) == Cardinality(LinkFaces(mesh, e) \cap SeqToSet(L.selected_faces))

(* C19 as stated: after the initial classification an edge is in           *)
(* boundary_edges iff the number of its linked faces that are selected is  *)
(* not 2.                                                                  *)
C19_BoundaryIffNotTwo ==
    Classified => \A e \in BMEdges(mesh) : e \in L.boundary_edges <=> SelectedCount(e) # 2

(* C19, amended: after the initial classification an edge is in            *)
(* boundary_edges iff at least one of its linked faces is selected and the *)
(* number of its selected linked faces is not 2 (it is 1, or 3 or more);   *)
(* an edge with no selected face is not a boundary edge.                   *)
C19_BoundaryIffTouchedNotTwo ==
    Classified =>
        \A e \in BMEdges(mesh) :
            e \in L.boundary_edges <=> (SelectedCount(e) >= 1 /\ SelectedCount(e) # 2)
C19_Witness ==
    /\ Classified
    /\ \E e \in BMEdges(mesh) : SelectedCount(e) = 0 /\ e \notin L.boundary_edges
    /\ \E e \in L.boundary_edges : SelectedCount(e) = 1
    /\ \E e \in BMEdges(mesh) : SelectedCount(e) = 2

(***************************************************************************)
(* The host events of one loopcut_between call, in the order of the code,  *)
(* and the number of loop cuts issued and not yet flushed.                 *)
(***************************************************************************)
CallEvents == <<"snapshot", "loopcut_slide", "sleep", "view_layer_update", "delta">>
Flushes == {i \in 1..Len(host.log) : host.log[i] = "view_layer_update"}
PendingCuts == Cardinality(LoopCuts) - Cardinality(Flushes)

(* C20: in every loopcut_between call the events occur in the order        *)
(* snapshot, host loop cut, settling delay, flush, read of the delta; the  *)
(* delta is never read while a loop cut is pending; during a lancet        *)
(* conversion at most one loop cut is pending at any time, and a cut is    *)
(* pending only between the host command and the flush, so every cut is    *)
(* settled before the next cut or any other read of the mesh starts.       *)
C20_BarrierOrdering ==
    op = "lancet" =>
        /\ \A i \in 1..Len(host.log) : host.log[i] = CallEvents[((i - 1) % Len(CallEvents)) + 1]
        /\ PendingCuts \in {0, 1}
        /\ host.pending <=> PendingCuts = 1
        /\ host.pending => pc \in {"lcb_sleep", "lcb_flush"}
        /\ pc \in {"lcb_cut", "lcb_delta"} => ~host.pending
C20_Witness ==
    /\ op = "lancet"
    /\ Len(host.log) >= 2 * Len(CallEvents)
    /\ host.log[Len(host.log)] = "delta"
    /\ Cardinality(Flushes) >= 2
    /\ ~host.pending

(***************************************************************************)
(* C21: the region walk ends on every mesh, and every face it appends to   *)
(* faces_between differs from all faces appended before it: when a call of *)
(* get_window_faces_between has ended, its list holds no face twice, so    *)
(* the list is no longer than the mesh has faces and the loop ran at most  *)
(* that many times (one face is appended per iteration, after the start    *)
(* face).  This holds on rings of quads that lead back to the start face.  *)
(***************************************************************************)
WalkEnded == op = "walk" /\ pc \in {"returned", "raised"}
WalkIterations == IF walk.faces = <<>> THEN 0 ELSE Len(walk.faces) - 1
C21_WalkBounded ==
    WalkEnded =>
        /\ NoRepeats(walk.faces)
        /\ SeqToSet(walk.faces) \subseteq BMFaces(mesh)
        /\ WalkIterations < Cardinality(BMFaces(mesh))
C21_Witness ==
    /\ WalkEnded
    /\ pc = "returned"
    /\ mesh = FlapBandMesh
    /\ Len(walk.faces) = Cardinality(BMFaces(mesh)) - 1
    /\ \A f \in SeqToSet(walk.faces) : ~face_touches(mesh, f, walk.second)
=============================================================================
